---- MODULE Spec2Model ----
(***************************************************************************)
(* A model of react-loop-detector: the language server's and the watch     *)
(* command's serialization of full-analysis runs, the analyzeHooks entry   *)
(* point with its process-wide options context and per-file error          *)
(* boundary, the guard analyzer, the fixed-point propagation of setters    *)
(* through the local call graph, and the cross-file closure expansion.     *)
(*                                                                         *)
(* Each part of the program has its own variables and its own              *)
(* specification; a specification parks the variables of the other parts.  *)
(***************************************************************************)
EXTENDS Integers, Sequences, FiniteSets, TLC

VARIABLES
  server,          \* language server (unnamed/part_000): the full-analysis scheduling state
  watch,           \* watch command (unnamed/part_003): the closure state of its action
  calls,           \* the analyzeHooks invocations: invocation -> its frame
  currentOptions,  \* utils' module-level options (the invocation whose options it holds, 0: {})
  typeChecker,     \* orchestrator's module-level checker (NoChecker, Persistent, or its creator)
  typeCheckerPool, \* orchestrator's module-level pool (TRUE: the provided pool)
  disposed,        \* the checkers dispose() was called on
  guardCase,       \* guard analyzer: the setter call and the code around it
  guardResult,     \* guard analyzer: what the variant returned
  callGraph,       \* buildLocalFunctionSetterMap: the file's local functions
  functionsCallingSetters, \* its map under construction
  changed,         \* its loop flag
  iterations,      \* its loop counter
  importGraph,     \* expandToIncludeImportedFiles: the files on disk and their imports
  allFilesMap,     \* its map (the paths it holds)
  queue,           \* its work queue
  shifted,         \* how many files it has taken from the queue (history)
  adjustCase,      \* _adjustConfidence: its arguments (baseConfidence, context)
  confidence,      \* _adjustConfidence: what it returned ("none" before the call)
  hookBody,        \* analyzeStateInteractions: the effect body and the call looked at
  asyncCallbackNodes,   \* its set of functions handed to asynchronous receivers
  cleanupFunctionNodes, \* its set of functions returned from the effect
  interactions,    \* the StateInteraction it builds
  traversal,       \* which of its traversals comes next
  ast,             \* extractUnstableVariables: the variable declarators of the file
  extraction,      \* its maps and sets, and how far it has come
  stabilityCase,   \* isStableFunctionCall: the call, the configuration, the checker
  isStable,        \* isStableFunctionCall: what it returned ("pending" before the call)
  parseOptions,    \* detectCircularDependencies: its options and the number of React files
  parsing,         \* which parser it took, the AstCache it created, how far the parse is
  effectCall,      \* detectUseEffectWithoutDeps: the hook call it visits
  finding,         \* the analysis it pushed for that call (type "none" if it pushed none)
  documents,       \* language server: uri -> the document, its debounce timer, its runs
  docEvents,       \* how many document notifications the editor has sent (history)
  mapCallbackContexts, \* analyzeKeyProps: its stack of map-callback contexts
  callPath,        \* the call expressions the traversal has entered and not yet left
  callNodes        \* how many call expressions the traversal has entered (history)

schedVars == <<server, watch>>
hookVars == <<calls, currentOptions, typeChecker, typeCheckerPool, disposed>>
guardVars == <<guardCase, guardResult>>
propVars == <<callGraph, functionsCallingSetters, changed, iterations>>
expandVars == <<importGraph, allFilesMap, queue, shifted>>
confVars == <<adjustCase, confidence>>
interactVars == <<hookBody, asyncCallbackNodes, cleanupFunctionNodes, interactions, traversal>>
extractVars == <<ast, extraction>>
stableVars == <<stabilityCase, isStable>>
parseVars == <<parseOptions, parsing>>
noDepsVars == <<effectCall, finding>>
docVars == <<documents, docEvents>>
mapVars == <<mapCallbackContexts, callPath, callNodes>>
vars == <<server, watch, calls, currentOptions, typeChecker, typeCheckerPool, disposed,
          guardCase, guardResult, callGraph, functionsCallingSetters, changed,
          iterations, importGraph, allFilesMap, queue, shifted,
          adjustCase, confidence,
          hookBody, asyncCallbackNodes, cleanupFunctionNodes, interactions, traversal,
          ast, extraction, stabilityCase, isStable,
          parseOptions, parsing, effectCall, finding, documents, docEvents,
          mapCallbackContexts, callPath, callNodes>>

midVars == <<confVars, interactVars, extractVars, stableVars>>
tailVars == <<parseVars, noDepsVars, docVars, mapVars>>
laterVars == <<midVars, tailVars>>
exceptSched == <<hookVars, guardVars, propVars, expandVars, laterVars>>
exceptHooks == <<schedVars, guardVars, propVars, expandVars, laterVars>>
exceptGuard == <<schedVars, hookVars, propVars, expandVars, laterVars>>
exceptProp == <<schedVars, hookVars, guardVars, expandVars, laterVars>>
exceptExpand == <<schedVars, hookVars, guardVars, propVars, laterVars>>
earlierVars == <<schedVars, hookVars, guardVars, propVars, expandVars>>
exceptConf == <<earlierVars, interactVars, extractVars, stableVars, tailVars>>
exceptInteract == <<earlierVars, confVars, extractVars, stableVars, tailVars>>
exceptExtract == <<earlierVars, confVars, interactVars, stableVars, tailVars>>
exceptStable == <<earlierVars, confVars, interactVars, extractVars, tailVars>>
exceptParse == <<earlierVars, midVars, noDepsVars, docVars, mapVars>>
exceptNoDeps == <<earlierVars, midVars, parseVars, docVars, mapVars>>
exceptDoc == <<earlierVars, midVars, parseVars, noDepsVars, mapVars>>
exceptMap == <<earlierVars, midVars, parseVars, noDepsVars, docVars>>

(***************************************************************************)
(* Bounds of the model.                                                    *)
(***************************************************************************)
\* how many requests the environment (editor, file system) sends in one behaviour
MaxEvents == 4

(***************************************************************************)
(* Language server: scheduleFullAnalysis / runFullAnalysis.                *)
(*                                                                         *)
(* server is the record of the module-level variables of the server        *)
(*   workspaceRoot, enable, isAnalyzing, pendingAnalysis,                  *)
(*   fullAnalysisDebounceTimer  (TRUE: a timer is armed and not yet fired) *)
(* plus what the host holds                                                *)
(*   inFlight  the runs whose detectCircularDependencies promise is        *)
(*             not yet settled                                             *)
(* plus history counters read only by the properties                       *)
(*   events     requests the environment sent                              *)
(*   started    runs started, completed: runs finished                     *)
(*   arrived    calls of runFullAnalysis that found the current run in     *)
(*              flight                                                     *)
(*   reruns     completions that took the `if (pendingAnalysis)` branch    *)
(*   busyRuns   completions of a run during which a request arrived        *)
(*   owed       a request was recorded during a run that has finished and  *)
(*              no run has started since                                   *)
(*   answeredEarly  an analyzeWorkspace request was answered success with  *)
(*              no run started after its receipt having completed          *)
(*   publishedDisabled  a run's results were sent to the open documents    *)
(*              while enable was false                                     *)
(***************************************************************************)
ServerInit(root) ==
  [ workspaceRoot |-> root, enable |-> TRUE,
    isAnalyzing |-> FALSE, pendingAnalysis |-> FALSE,
    fullAnalysisDebounceTimer |-> FALSE,
    inFlight |-> 0, events |-> 0, started |-> 0, completed |-> 0,
    arrived |-> 0, reruns |-> 0, busyRuns |-> 0, owed |-> FALSE,
    answeredEarly |-> FALSE, publishedDisabled |-> FALSE ]

\* scheduleFullAnalysis(): clearTimeout of the armed timer, then a new timer
scheduleFullAnalysis(s) ==
  [s EXCEPT !.fullAnalysisDebounceTimer = TRUE]

\* runFullAnalysis without its `if (isAnalyzing)` test
runFullAnalysisUnguarded(s) ==
  IF ~s.workspaceRoot THEN s
  ELSE [s EXCEPT !.isAnalyzing = TRUE, !.inFlight = @ + 1, !.started = @ + 1,
                 !.arrived = 0, !.owed = FALSE]

\* runFullAnalysis() up to its first await
runFullAnalysis(s) ==
  IF ~s.workspaceRoot THEN s
  ELSE IF s.isAnalyzing
       THEN [s EXCEPT !.pendingAnalysis = TRUE, !.arrived = @ + 1]
       ELSE [s EXCEPT !.isAnalyzing = TRUE, !.inFlight = @ + 1, !.started = @ + 1,
                      !.arrived = 0, !.owed = FALSE]

\* the finally block without `pendingAnalysis = false`
finishFullAnalysisKeepPending(s) ==
  LET done == [s EXCEPT !.isAnalyzing = FALSE, !.inFlight = @ - 1,
                        !.completed = @ + 1,
                        !.busyRuns = IF s.arrived > 0 THEN @ + 1 ELSE @,
                        !.arrived = 0]
  IN IF done.pendingAnalysis
     THEN scheduleFullAnalysis([done EXCEPT !.reruns = @ + 1, !.owed = TRUE])
     ELSE done

\* the finally block without its call of scheduleFullAnalysis()
finishFullAnalysisNoRerun(s) ==
  LET done == [s EXCEPT !.isAnalyzing = FALSE, !.inFlight = @ - 1,
                        !.completed = @ + 1,
                        !.busyRuns = IF s.arrived > 0 THEN @ + 1 ELSE @,
                        !.arrived = 0]
  IN IF done.pendingAnalysis
     THEN [done EXCEPT !.pendingAnalysis = FALSE, !.reruns = @ + 1, !.owed = TRUE]
     ELSE done

\* runFullAnalysis() from the settling of detectCircularDependencies on: the
\* rest of the try block or the catch block (neither touches the scheduling
\* state), then the finally block
finishFullAnalysis(s) ==
  LET done == [s EXCEPT !.isAnalyzing = FALSE, !.inFlight = @ - 1,
                        !.completed = @ + 1,
                        !.busyRuns = IF s.arrived > 0 THEN @ + 1 ELSE @,
                        !.arrived = 0]
  IN IF done.pendingAnalysis
     THEN scheduleFullAnalysis(
            [done EXCEPT !.pendingAnalysis = FALSE, !.reruns = @ + 1, !.owed = TRUE])
     ELSE done

\* onDidChangeConfiguration: the new settings, then a scheduled re-analysis
\* when enabled (clearAllDiagnostics otherwise)
ServerDidChangeConfiguration ==
  /\ server.events < MaxEvents
  /\ \E e \in BOOLEAN :
       LET s == [server EXCEPT !.enable = e, !.events = @ + 1]
       IN server' = IF e THEN scheduleFullAnalysis(s) ELSE s
  /\ UNCHANGED <<watch, exceptSched>>

\* onDidChangeContent of a changed React file
ServerDidChangeContent ==
  /\ server.events < MaxEvents
  /\ server.enable
  /\ server' = scheduleFullAnalysis([server EXCEPT !.events = @ + 1])
  /\ UNCHANGED <<watch, exceptSched>>

\* onDidChangeWatchedFiles of a config file: loadRldConfig().then(...)
ServerDidChangeWatchedFiles ==
  /\ server.events < MaxEvents
  /\ server' = scheduleFullAnalysis([server EXCEPT !.events = @ + 1])
  /\ UNCHANGED <<watch, exceptSched>>

\* the debounce timer fires: its callback calls runFullAnalysis()
ServerTimerFires ==
  /\ server.fullAnalysisDebounceTimer
  /\ server' = runFullAnalysis([server EXCEPT !.fullAnalysisDebounceTimer = FALSE])
  /\ UNCHANGED <<watch, exceptSched>>

\* the handler of reactLoopDetector/analyzeWorkspace after `await runFullAnalysis()`:
\* when runFullAnalysis found a run in flight its promise is already resolved and
\* { success: true } is returned at once; otherwise the answer waits for the run the
\* call started
answerAnalyzeWorkspace(before, after) ==
  [after EXCEPT !.answeredEarly = @ \/ before.isAnalyzing]

\* a direct request: reactLoopDetector/analyzeWorkspace, or onInitialized
ServerAnalyzeWorkspace ==
  /\ server.events < MaxEvents
  /\ server.workspaceRoot
  /\ server' = answerAnalyzeWorkspace(server,
                  runFullAnalysis([server EXCEPT !.events = @ + 1]))
  /\ UNCHANGED <<watch, exceptSched>>

\* the rest of the try block when detectCircularDependencies is fulfilled:
\* cachedResults = results and sendDiagnosticsToAllDocuments(), which does not read
\* globalSettings.enable; the catch block publishes nothing
sendDiagnosticsToAllDocuments(s, outcome) ==
  [s EXCEPT !.publishedDisabled = @ \/ (outcome = "fulfilled" /\ ~s.enable)]

\* detectCircularDependencies settles, fulfilled or rejected
ServerRunSettles ==
  /\ server.inFlight > 0
  /\ \E outcome \in {"fulfilled", "rejected"} :
       server' = finishFullAnalysis(sendDiagnosticsToAllDocuments(server, outcome))
  /\ UNCHANGED <<watch, exceptSched>>

(***************************************************************************)
(* Watch command: runAnalysis and the debounced watcher events.            *)
(* watch holds the closure variables isAnalyzing, pendingAnalysis,         *)
(* debounceTimer (TRUE: armed), watching (the watcher is installed, which  *)
(* happens after `await runAnalysis()`), and the same host and history     *)
(* fields as server.                                                       *)
(***************************************************************************)
runAnalysis(w) ==
  IF w.isAnalyzing
  THEN [w EXCEPT !.pendingAnalysis = TRUE, !.arrived = @ + 1]
  ELSE [w EXCEPT !.isAnalyzing = TRUE, !.inFlight = @ + 1, !.started = @ + 1,
                 !.arrived = 0, !.owed = FALSE]

\* the action callback up to the first await inside `await runAnalysis()`
WatchInit ==
  runAnalysis([ isAnalyzing |-> FALSE, pendingAnalysis |-> FALSE,
                debounceTimer |-> FALSE, watching |-> FALSE,
                inFlight |-> 0, events |-> 0, started |-> 0, completed |-> 0,
                arrived |-> 0, reruns |-> 0, busyRuns |-> 0, owed |-> FALSE ])

\* runAnalysis from the settling of detectCircularDependencies on
finishAnalysis(w) ==
  LET done == [w EXCEPT !.isAnalyzing = FALSE, !.inFlight = @ - 1,
                        !.completed = @ + 1,
                        !.busyRuns = IF w.arrived > 0 THEN @ + 1 ELSE @,
                        !.arrived = 0, !.watching = TRUE]
  IN IF done.pendingAnalysis
     THEN runAnalysis(
            [done EXCEPT !.pendingAnalysis = FALSE, !.reruns = @ + 1, !.owed = TRUE])
     ELSE done

\* watcher.on('change' | 'add' | 'unlink'): clearTimeout, then a new timer
WatchFileEvent ==
  /\ watch.watching
  /\ watch.events < MaxEvents
  /\ \E kind \in {"change", "add", "unlink"} :
       watch' = [watch EXCEPT !.debounceTimer = TRUE, !.events = @ + 1]
  /\ UNCHANGED <<server, exceptSched>>

\* the debounce timer fires: its callback calls runAnalysis()
WatchTimerFires ==
  /\ watch.debounceTimer
  /\ watch' = runAnalysis([watch EXCEPT !.debounceTimer = FALSE])
  /\ UNCHANGED <<server, exceptSched>>

\* detectCircularDependencies settles, fulfilled or rejected
WatchRunSettles ==
  /\ watch.inFlight > 0
  /\ \E outcome \in {"fulfilled", "rejected"} :
       watch' = finishAnalysis(watch)
  /\ UNCHANGED <<server, exceptSched>>

(***************************************************************************)
(* analyzeHooks (orchestrator.ts) and its callers.                         *)
(*                                                                         *)
(* An invocation runs on the single JavaScript thread and is suspended at  *)
(* `await yieldToEventLoop()` after each file; everything between two      *)
(* suspensions is one step.  calls[c] is the frame of invocation c:        *)
(*   pc        "idle" | "suspended" | "returned"                           *)
(*   kind      "full": the call made by detectCircularDependencies,        *)
(*             "single": the call made by runSingleFileAnalysis,           *)
(*             "api": a direct caller of the library                       *)
(*   n, i      parsedFiles.length and the files analysed so far            *)
(*   mode      what options ask of the type checker (see Modes)            *)
(*   results   the findings pushed so far, <<file, stage>>                 *)
(*   produced  the findings the stages that ran produced (history)         *)
(*   reads     the invocations whose options the helpers read on behalf    *)
(*             of this invocation (history)                                *)
(*   observed  file -> what its analysis read from the module-level state: *)
(*             the options and the type checker and pool in place          *)
(* An invocation's options object is identified by the invocation.         *)
(***************************************************************************)
NoChecker == 0
Persistent == 0 - 1

Modes == {"none", "providedPool", "providedChecker", "create", "createFails"}

\* analyzeFileIntelligently's steps in order; pushes: its findings go to results
Stages ==
  << [name |-> "extractStateInfo", pushes |-> FALSE],
     [name |-> "extractUnstableVariables", pushes |-> FALSE],
     [name |-> "detectSetStateDuringRender", pushes |-> TRUE],
     [name |-> "detectRefMutationDuringRender", pushes |-> TRUE],
     [name |-> "detectUseEffectWithoutDeps", pushes |-> TRUE],
     [name |-> "analyzeJsxProps", pushes |-> TRUE],
     [name |-> "detectUnstableSyncExternalStore", pushes |-> TRUE],
     [name |-> "analyzeKeyProps", pushes |-> TRUE],
     [name |-> "buildLocalFunctionSetterMap", pushes |-> FALSE],
     [name |-> "hookNode1", pushes |-> TRUE],
     [name |-> "hookNode2", pushes |-> TRUE] >>

NStages == Len(Stages)

\* the findings of the stages of file f that complete when stage throwAt
\* throws (0: no stage throws)
Produced(f, throwAt) ==
  { <<f, k>> : k \in { j \in 1..NStages :
                         Stages[j].pushes /\ (throwAt = 0 \/ j < throwAt) } }

\* analyzeFileIntelligently with results declared inside the try block: a
\* throwing stage loses the findings pushed before it
analyzeFileIntelligentlyDropsPartial(f, throwAt) ==
  [ results |-> IF throwAt = 0 THEN Produced(f, 0) ELSE {}, threw |-> FALSE ]

\* analyzeFileIntelligently: results is declared outside the try block, the
\* catch block logs, and results is returned either way
analyzeFileIntelligently(f, throwAt) ==
  [ results |-> Produced(f, throwAt), threw |-> FALSE ]

EmptyCall ==
  [ pc |-> "idle", kind |-> "none", n |-> 0, i |-> 0, mode |-> "none",
    results |-> {}, produced |-> {}, reads |-> {}, observed |-> << >> ]

\* what the helpers of a file's analysis read at module level: the options
\* (currentOptions, here what they ask of the type checker), the checker
\* (getTypeChecker) and the pool
ModuleState(mode, checker, pool) ==
  [ options |-> mode,
    typeChecker |-> CASE checker = NoChecker -> "null"
                      [] checker = Persistent -> "provided"
                      [] OTHER -> "created",
    typeCheckerPool |-> pool ]

\* one iteration of `for (const file of parsedFiles)` up to its await: the
\* per-file try/catch around analyzeFileIntelligently; the helpers
\* (createAnalysis, isStrictModeEnabled) read the module-level options opts
analyzeOneFile(frame, opts, read, throwAt) ==
  LET f == frame.i + 1
      r == analyzeFileIntelligently(f, throwAt)
  IN [frame EXCEPT !.i = f,
                   !.results = IF r.threw THEN @ ELSE @ \cup r.results,
                   !.produced = @ \cup Produced(f, throwAt),
                   !.reads = IF Produced(f, throwAt) # {} THEN @ \cup {opts} ELSE @,
                   !.observed = Append(@, read),
                   !.pc = "suspended"]

\* const hasProvidedTypeChecker = !!options.typeChecker
hasProvidedTypeChecker(mode) == mode = "providedChecker"

\* the module-level typeChecker after the set-up: the provided one, one this
\* invocation created, or none
CheckerAfterSetup(c, mode) ==
  CASE mode = "providedChecker" -> Persistent
    [] mode = "create" -> c
    [] OTHER -> NoChecker

\* analyzeHooks from its entry to its first await (or to its return when
\* parsedFiles is empty): setCurrentOptions, the type checker set-up,
\* expandToIncludeImportedFiles (modelled by SpecExpand), the first file
HooksStart(c, kind, n, mode, throwAt) ==
  /\ calls[c].pc = "idle"
  /\ currentOptions' = c
  /\ typeCheckerPool' = (n > 0 /\ mode = "providedPool")
  /\ IF n > 0
     THEN /\ typeChecker' = CheckerAfterSetup(c, mode)
          /\ calls' = [calls EXCEPT ![c] =
                 analyzeOneFile([EmptyCall EXCEPT !.kind = kind, !.n = n, !.mode = mode],
                                c,
                                ModuleState(mode, CheckerAfterSetup(c, mode),
                                            mode = "providedPool"),
                                throwAt)]
          /\ UNCHANGED disposed
     ELSE \* no file, no await: the clean-up runs in the same step
          /\ typeChecker' = NoChecker
          /\ calls' = [calls EXCEPT ![c] =
                 [EmptyCall EXCEPT !.kind = kind, !.mode = mode, !.pc = "returned"]]
          /\ disposed' = IF CheckerAfterSetup(c, mode) # NoChecker
                            /\ ~hasProvidedTypeChecker(mode)
                         THEN disposed \cup {CheckerAfterSetup(c, mode)} ELSE disposed

\* the continuation after `await yieldToEventLoop()`: the next file, or the
\* clean-up of the type checker and the return
HooksResume(c, throwAt) ==
  /\ calls[c].pc = "suspended"
  /\ IF calls[c].i < calls[c].n
     THEN /\ calls' = [calls EXCEPT ![c] =
                 analyzeOneFile(calls[c], currentOptions,
                                ModuleState(calls[currentOptions].mode, typeChecker,
                                            typeCheckerPool),
                                throwAt)]
          /\ UNCHANGED <<currentOptions, typeChecker, typeCheckerPool, disposed>>
     ELSE /\ calls' = [calls EXCEPT ![c].pc = "returned"]
          /\ disposed' = IF typeChecker # NoChecker /\ ~hasProvidedTypeChecker(calls[c].mode)
                         THEN disposed \cup {typeChecker} ELSE disposed
          /\ typeChecker' = NoChecker
          /\ typeCheckerPool' = FALSE
          /\ UNCHANGED currentOptions

HooksIdle ==
  /\ calls = << >>
  /\ currentOptions = 0
  /\ typeChecker = NoChecker
  /\ typeCheckerPool = FALSE
  /\ disposed = {}

SchedIdle ==
  /\ server = ServerInit(FALSE)
  /\ watch = [ isAnalyzing |-> FALSE ]

GuardIdle ==
  /\ guardCase = [setterCall |-> [type |-> "none"], tests |-> << >>,
                  innerBlock |-> [type |-> "none"], outerBlock |-> [type |-> "none"]]
  /\ guardResult = [variant |-> "idle", guardType |-> "none", isSafe |-> FALSE]

PropIdle ==
  /\ callGraph = << >>
  /\ functionsCallingSetters = << >>
  /\ changed = FALSE
  /\ iterations = 0

ExpandIdle ==
  /\ importGraph = << >>
  /\ allFilesMap = {}
  /\ queue = << >>
  /\ shifted = 0

ConfIdle ==
  /\ adjustCase = << >>
  /\ confidence = "none"

EarlierIdle == SchedIdle /\ HooksIdle /\ GuardIdle /\ PropIdle /\ ExpandIdle

InteractIdle ==
  /\ hookBody = << >>
  /\ asyncCallbackNodes = {}
  /\ cleanupFunctionNodes = {}
  /\ interactions = << >>
  /\ traversal = "idle"

ExtractIdle ==
  /\ ast = << >>
  /\ extraction = << >>

StableIdle ==
  /\ stabilityCase = << >>
  /\ isStable = "idle"

ParseIdle ==
  /\ parseOptions = << >>
  /\ parsing = << >>

MidIdle == ConfIdle /\ InteractIdle /\ ExtractIdle /\ StableIdle

NoDepsIdle ==
  /\ effectCall = << >>
  /\ finding = << >>

DocIdle ==
  /\ documents = << >>
  /\ docEvents = 0

MapIdle ==
  /\ mapCallbackContexts = << >>
  /\ callPath = << >>
  /\ callNodes = 0

TailIdle == ParseIdle /\ NoDepsIdle /\ DocIdle /\ MapIdle

LaterIdle == MidIdle /\ TailIdle

SchedInit ==
  /\ \E root \in BOOLEAN : server = ServerInit(root)
  /\ watch = WatchInit
  /\ HooksIdle /\ GuardIdle /\ PropIdle /\ ExpandIdle /\ LaterIdle

SchedNext ==
  \/ ServerDidChangeConfiguration
  \/ ServerDidChangeContent
  \/ ServerDidChangeWatchedFiles
  \/ ServerTimerFires
  \/ ServerAnalyzeWorkspace
  \/ ServerRunSettles
  \/ WatchFileEvent
  \/ WatchTimerFires
  \/ WatchRunSettles

SpecSched == SchedInit /\ [][SchedNext]_vars

\* what the event loop guarantees: an armed timer fires, a started run settles
SpecSchedFair ==
  /\ SchedInit
  /\ [][SchedNext]_vars
  /\ WF_vars(ServerTimerFires)
  /\ WF_vars(WatchTimerFires)
  /\ WF_vars(ServerRunSettles)
  /\ WF_vars(WatchRunSettles)

(***************************************************************************)
(* Overlapping analyzeHooks invocations in the language server: the full   *)
(* analysis is suspended between files while the debounce timer of a       *)
(* changed document calls runSingleFileAnalysis, which calls analyzeHooks  *)
(* without looking at isAnalyzing.                                         *)
(***************************************************************************)
\* invocations of analyzeHooks in one behaviour
MaxCalls == 3
\* files handed to one invocation
MaxParsedFiles == 2

Inv == 1..MaxCalls

HooksInit ==
  /\ calls = [c \in Inv |-> EmptyCall]
  /\ currentOptions = 0
  /\ typeChecker = NoChecker
  /\ typeCheckerPool = FALSE
  /\ disposed = {}

\* detectCircularDependencies -> analyzeHooks(parsedFiles, {..., typeCheckerPool}):
\* runFullAnalysis lets one such call be in flight at a time
StartFullAnalysisCall ==
  \E c \in Inv, n \in 1..MaxParsedFiles, mode \in {"none", "providedPool"} :
    /\ \A d \in Inv : ~(calls[d].kind = "full" /\ calls[d].pc = "suspended")
    /\ HooksStart(c, "full", n, mode, 0)
    /\ UNCHANGED exceptHooks

\* runSingleFileAnalysis -> analyzeHooks([parsed], {..., typeChecker, typeCheckerPool})
StartSingleFileCall ==
  \E c \in Inv, mode \in {"none", "providedChecker", "providedPool"} :
    HooksStart(c, "single", 1, mode, 0) /\ UNCHANGED exceptHooks

\* a suspended invocation is resumed by the event loop
ResumeCall ==
  \E c \in Inv : HooksResume(c, 0) /\ UNCHANGED exceptHooks

CtxInit == HooksInit /\ SchedIdle /\ GuardIdle /\ PropIdle /\ ExpandIdle /\ LaterIdle

CtxNext ==
  \/ StartFullAnalysisCall
  \/ StartSingleFileCall
  \/ ResumeCall

SpecCtx == CtxInit /\ [][CtxNext]_vars

\* C24: no invocation of analyzeHooks ever disposes the persistent type checker its
\* caller provided, however the invocations of the full analysis and of the
\* single-file analyses overlap.
C24_ProvidedCheckerNeverDisposed == Persistent \notin disposed

\* a direct caller of the library: analyzeHooks(parsedFiles, options) with any options
StartLibraryCall ==
  \E c \in Inv, n \in 0..MaxParsedFiles, mode \in Modes :
    HooksStart(c, "api", n, mode, 0) /\ UNCHANGED exceptHooks

LibraryNext ==
  \/ StartLibraryCall
  \/ ResumeCall

SpecLibrary == CtxInit /\ [][LibraryNext]_vars

\* C25: when an invocation of analyzeHooks that created a type checker has returned,
\* that checker has been disposed, however the invocations overlap.
C25_CreatedCheckerDisposedAtReturn ==
  \A c \in Inv :
    (calls[c].pc = "returned" /\ calls[c].mode = "create") => c \in disposed

\* C5: every read of the process-wide options made by a helper on behalf of
\* an invocation returns the options passed to that invocation.
C5_ReadsOwnOptions ==
  \A c \in Inv : calls[c].reads \subseteq {c}

(***************************************************************************)
(* One analyzeHooks invocation over files whose analysis may throw.        *)
(***************************************************************************)
StartFiles ==
  \E n \in 0..MaxParsedFiles, throwAt \in 0..NStages :
    HooksStart(1, "api", n, "none", throwAt) /\ UNCHANGED exceptHooks

ResumeFiles ==
  \E throwAt \in 0..NStages : HooksResume(1, throwAt) /\ UNCHANGED exceptHooks

FileNext ==
  \/ StartFiles
  \/ ResumeFiles

SpecFile == CtxInit /\ [][FileNext]_vars

\* C10: an exception raised while analysing a file stops at the per-file
\* boundary: the findings produced for that file before the exception are in
\* the results, and analyzeHooks returns only after every file was analysed,
\* with the findings of all of them.
C10_PartialResultsKept ==
  \A c \in Inv :
    /\ calls[c].results = calls[c].produced
    /\ calls[c].pc = "returned" => calls[c].i = calls[c].n
    /\ calls[c].pc = "suspended" => calls[c].i \in 1..calls[c].n

\* returned: the first file threw in its last hook (its earlier findings are
\* kept) and the second file was analysed in full
C10_Witness ==
  /\ calls[1].pc = "returned"
  /\ calls[1].n >= 2
  /\ <<1, 3>> \in calls[1].results
  /\ <<1, NStages>> \notin calls[1].results
  /\ <<2, NStages>> \in calls[1].results

\* the findings an invocation returns: which finding of which file, and its
\* field values, which follow from what the file's analysis read (the
\* configured lists through the options, the types through the checker)
Findings(c) ==
  { <<r[1], r[2], calls[c].observed[r[1]]>> : r \in calls[c].results }

\* two invocations over the same files with the same configuration
SameRun(c, d) ==
  /\ calls[c].pc = "returned" /\ calls[d].pc = "returned"
  /\ calls[c].n = calls[d].n
  /\ calls[c].mode = calls[d].mode

\* C12: two analyzeHooks runs over the same unchanged files with identical
\* configuration return identical finding sets (same members, same field
\* values), whatever other runs the process executed before.
C12_SameRunsSameFindings ==
  \A c, d \in Inv : SameRun(c, d) => Findings(c) = Findings(d)

(***************************************************************************)
(* buildLocalFunctionSetterMap (effect-analyzer.ts).                       *)
(*                                                                         *)
(* callGraph is what the first two passes collect from the file:           *)
(*   n        the local functions, 1..n in the order of functionBodies     *)
(*            (the order of their definitions in the file)                 *)
(*   direct   function -> the setters called in its body                   *)
(*   callees  function -> the local functions called in its body           *)
(* functionsCallingSetters maps a function to its setters; a function the  *)
(* Map has no entry for maps to {} (the code reads `get(f) || []`).        *)
(***************************************************************************)
maxIterations == 100

\* local functions of a file, the call edges between them
MaxFuncs == 3
MaxCallEdges == 2
\* the longest chain f1 -> f2 -> ... -> fn of calls
MaxChain == 102

Setters == {"setA", "setB"}

RECURSIVE SubsetsUpTo(_, _)
\* the subsets of S of at most k elements
SubsetsUpTo(S, k) ==
  IF k = 0 THEN {{}}
  ELSE { T \cup U : T \in SubsetsUpTo(S, k - 1), U \in {{}} \cup {{e} : e \in S} }

\* a function of a small graph calls no setter or one setter in its own body
DirectChoices == {{}} \cup { {s} : s \in Setters }

\* every call graph of MaxFuncs functions with at most MaxCallEdges call edges
SmallGraphs ==
  { [ n |-> MaxFuncs,
      direct |-> d,
      callees |-> [f \in 1..MaxFuncs |-> { g \in 1..MaxFuncs : <<f, g>> \in E }] ] :
    d \in [1..MaxFuncs -> DirectChoices],
    E \in SubsetsUpTo((1..MaxFuncs) \X (1..MaxFuncs), MaxCallEdges) }

\* f1 calls f2 calls ... calls fn, which calls a setter: defined caller first
ChainGraphs ==
  { [ n |-> n,
      direct |-> [f \in 1..n |-> IF f = n THEN {"setA"} ELSE {}],
      callees |-> [f \in 1..n |-> IF f < n THEN {f + 1} ELSE {}] ] :
    n \in 2..MaxChain }

RECURSIVE SettersAfterPass(_, _, _)
\* lines 119-136: the entry of function f after one pass of the for loop
\* over functionCallingFunctions from the map m. The loop visits the
\* functions in order and writes the map in place, so f sees the entries
\* this pass has already written for the functions before it, and the
\* entries of m for the others.
SettersAfterPass(g, m, f) ==
  m[f] \cup UNION { IF calledFunc < f THEN SettersAfterPass(g, m, calledFunc)
                    ELSE m[calledFunc] : calledFunc \in g.callees[f] }

\* one pass of the for loop: the map it leaves, and whether it set `changed`
\* (some entry grew)
ForEachFunction(g, m) ==
  LET after == [f \in 1..g.n |-> SettersAfterPass(g, m, f)]
  IN [ map |-> after,
       changed |-> \E f \in 1..g.n :
                     Cardinality(after[f]) > Cardinality(m[f]) ]

\* the loop condition without the iteration cap
LoopContinuesUncapped == changed

\* the condition of `while (changed && iterations < maxIterations)`
LoopContinues == changed /\ iterations < maxIterations

PropDone == ~LoopContinues

\* one iteration of the while loop
PropagateStep ==
  /\ LoopContinues
  /\ LET pass == ForEachFunction(callGraph, functionsCallingSetters)
     IN /\ functionsCallingSetters' = pass.map
        /\ changed' = pass.changed
  /\ iterations' = iterations + 1
  /\ UNCHANGED <<callGraph, exceptProp>>

\* the state when the third pass begins: the map holds the direct setters
PropInit ==
  /\ callGraph \in SmallGraphs \cup ChainGraphs
  /\ functionsCallingSetters = callGraph.direct
  /\ changed = TRUE
  /\ iterations = 0
  /\ SchedIdle /\ HooksIdle /\ GuardIdle /\ ExpandIdle /\ LaterIdle

PropNext == PropagateStep

SpecProp == PropInit /\ [][PropNext]_vars

\* the functions of S and those they call
OneStep(g, S) == { h \in S \cup UNION { g.callees[f] : f \in S } : h \in 1..g.n }

RECURSIVE WithinSteps(_, _, _)
\* the functions reachable from those of S through at most k calls; when the first
\* half of the steps adds no function, S is closed under calls already
WithinSteps(g, S, k) ==
  IF k <= 1 THEN OneStep(g, S)
  ELSE LET half == WithinSteps(g, S, k \div 2)
       IN IF half = S THEN S ELSE WithinSteps(g, half, k - (k \div 2))

\* the functions reachable from those of S through calls (S included)
ReachableFrom(g, S) == WithinSteps(g, S, g.n)

\* the setters reachable from f: its own and those of every function it
\* transitively calls
ReachableSetters(g, f) == UNION { g.direct[h] : h \in ReachableFrom(g, {f}) }

\* the loop has run more iterations than its bound allows
LoopOverran == iterations > maxIterations

\* C7: the propagation ends, for every call graph, after at most
\* maxIterations iterations of its loop: every step of the loop counts one
\* iteration, and the count never passes maxIterations.
C7_PropagationTerminates ==
  /\ [](~LoopOverran)
  /\ [][iterations' = iterations + 1 /\ iterations' <= maxIterations]_vars

\* the loop has ended on a cyclic call graph (1 calls 2, 2 calls 1) whose
\* functions got each other's setters
C7_Witness ==
  /\ PropDone
  /\ iterations >= 2
  /\ callGraph.n = MaxFuncs
  /\ 2 \in callGraph.callees[1] /\ 1 \in callGraph.callees[2]
  /\ functionsCallingSetters[1] = Setters

\* C8: when the propagation has ended, every function maps to exactly the
\* setters reachable from it through the call graph.
C8_ExactReachableSetters ==
  PropDone =>
    \A f \in 1..callGraph.n :
      functionsCallingSetters[f] = ReachableSetters(callGraph, f)

(***************************************************************************)
(* expandToIncludeImportedFiles (orchestrator.ts).                         *)
(*                                                                         *)
(* The source files of the project are 1..MaxFiles.  An import resolves to *)
(* one of them, to a file that is no JS/TS source (StyleSheet), or to      *)
(* nothing (Unresolved: the resolver returns null, here 0).  importGraph   *)
(* is                                                                      *)
(*   imports      file -> the targets its import declarations resolve to   *)
(*   unparseable  the files parseFile throws on                            *)
(*   parsedFiles  the files handed to the function                         *)
(* allFilesMap is the key set of the Map, queue the work list.             *)
(***************************************************************************)
MaxFiles == 3
MaxImportEdges == 3

Files == 1..MaxFiles

StyleSheet == MaxFiles + 1

Unresolved == MaxFiles + 2

Targets == Files \cup {StyleSheet, Unresolved}

ImportGraphs ==
  { [ imports |-> [f \in Files |-> { t \in Targets : <<f, t>> \in E }],
      unparseable |-> u,
      parsedFiles |-> p ] :
    E \in SubsetsUpTo(Files \X Targets, MaxImportEdges),
    u \in {{}, {MaxFiles}},
    p \in {<<1>>, <<1, 2>>} }

\* pathResolver.resolve: null for an import that resolves to nothing
resolve(t) == IF t = Unresolved THEN 0 ELSE t

\* the extension test of lines 329-333
isSourceExtension(resolvedPath) == resolvedPath \in Files

\* allFilesMap.has answering false for every path
allFilesMapHasNothing(map, resolvedPath) == FALSE

\* allFilesMap.has(resolvedPath)
allFilesMapHas(map, resolvedPath) == resolvedPath \in map

RECURSIVE ForEachImport(_, _, _)
\* lines 323-347: the imports of one file, the file targets in ascending
\* order (the targets that are no source files change nothing)
ForEachImport(g, todo, acc) ==
  IF todo = {} THEN acc
  ELSE LET t == IF todo \cap Files # {}
                THEN CHOOSE x \in todo \cap Files : \A y \in todo \cap Files : x <= y
                ELSE CHOOSE x \in todo : TRUE
           resolvedPath == resolve(t)
           rest == todo \ {t}
       IN IF /\ resolvedPath # 0
             /\ ~allFilesMapHas(acc.map, resolvedPath)
             /\ isSourceExtension(resolvedPath)
             /\ resolvedPath \notin g.unparseable
          THEN ForEachImport(g, rest,
                 [map |-> acc.map \cup {resolvedPath},
                  queue |-> Append(acc.queue, resolvedPath)])
          ELSE ForEachImport(g, rest, acc)

ExpandDone == queue = << >>

\* one iteration of `while ((fileToProcess = queue.shift()))`
ExpandStep ==
  /\ queue # << >>
  /\ LET fileToProcess == Head(queue)
         out == ForEachImport(importGraph, importGraph.imports[fileToProcess],
                  [map |-> allFilesMap, queue |-> Tail(queue)])
     IN /\ allFilesMap' = out.map
        /\ queue' = out.queue
  /\ shifted' = shifted + 1
  /\ UNCHANGED <<importGraph, exceptExpand>>

ExpandInit ==
  /\ importGraph \in ImportGraphs
  /\ allFilesMap = { importGraph.parsedFiles[i] : i \in 1..Len(importGraph.parsedFiles) }
  /\ queue = importGraph.parsedFiles
  /\ shifted = 0
  /\ SchedIdle /\ HooksIdle /\ GuardIdle /\ PropIdle /\ LaterIdle

ExpandNext == ExpandStep

SpecExpand == ExpandInit /\ [][ExpandNext]_vars

SpecExpandFair == ExpandInit /\ [][ExpandNext]_vars /\ WF_vars(ExpandStep)

\* files 1 and 2 import each other
ImportCycle ==
  /\ 2 \in importGraph.imports[1]
  /\ 1 \in importGraph.imports[2]

\* C9: the expansion ends for every import graph, cycles included: no file
\* is taken from the queue twice, so the files taken and those waiting are
\* never more than the files of the project, and the queue runs empty.
C9_ExpansionTerminates ==
  /\ [](shifted + Len(queue) <= MaxFiles)
  /\ <>[]ExpandDone

\* the expansion has ended on a graph with an import cycle, every file of
\* the project taken from the queue once
C9_Witness ==
  /\ ExpandDone
  /\ ImportCycle
  /\ shifted = MaxFiles
  /\ allFilesMap = Files

(***************************************************************************)
(* The guard analyzer (guard-analyzer.ts).                                 *)
(*                                                                         *)
(* AST nodes are records with the fields Babel gives them; NoNode stands   *)
(* for an absent node (undefined).  guardCase is one setter call with the  *)
(* code around it:                                                         *)
(*   setterCall  the call expression                                       *)
(*   tests       the tests of the `if`s around it, nearest first           *)
(*   innerBlock  the block of the nearest `if` that holds the call         *)
(*   outerBlock  the body of the function                                  *)
(* getAncestorStack builds the ancestor chain from it, the call itself at  *)
(* index 1, then outwards.                                                 *)
(* guardResult is what a variant returned for it; guardType "none" is the  *)
(* null result.                                                            *)
(***************************************************************************)
stateVar == "state"
setterName == "setState"

NoNode == [type |-> "none"]

Id(n) == [type |-> "Identifier", name |-> n]
BooleanLiteral(v) == [type |-> "BooleanLiteral", value |-> v]
NumericLiteral(v) == [type |-> "NumericLiteral", value |-> v]
StringLiteral(v) == [type |-> "StringLiteral", value |-> v]
NullLiteral == [type |-> "NullLiteral"]
\* o.p
Member(o, p) ==
  [type |-> "MemberExpression", object |-> Id(o), property |-> Id(p), computed |-> FALSE]
\* o['p']
MemberComputed(o, p) ==
  [type |-> "MemberExpression", object |-> Id(o), property |-> StringLiteral(p),
   computed |-> TRUE]
Not(x) == [type |-> "UnaryExpression", operator |-> "!", argument |-> x]
Binary(op, l, r) == [type |-> "BinaryExpression", operator |-> op, left |-> l, right |-> r]
Logical(op, l, r) == [type |-> "LogicalExpression", operator |-> op, left |-> l, right |-> r]
SpreadElement(x) == [type |-> "SpreadElement", argument |-> x]
ObjectProperty(k) == [type |-> "ObjectProperty", key |-> Id(k)]
ObjectExpression(props) == [type |-> "ObjectExpression", properties |-> props]
ArrayExpression(elems) == [type |-> "ArrayExpression", elements |-> elems]
CallExpression(callee, args) ==
  [type |-> "CallExpression", callee |-> callee, arguments |-> args]

\* setterCall.arguments?.[0]
FirstArgument(call) == IF Len(call.arguments) > 0 THEN call.arguments[1] ELSE NoNode

\* the operands of the comparisons: the state on a side, a property of the
\* state on a side, no state at all, a literal on a side
OperandPairs ==
  { <<Id(stateVar), Id("prop")>>, <<Id("prop"), Id(stateVar)>>,
    <<Member(stateVar, "id"), NumericLiteral(5)>>,
    <<NumericLiteral(5), Member(stateVar, "id")>>,
    <<Member("props", "row"), Id(stateVar)>>,
    <<Id(stateVar), MemberComputed("props", "row")>>,
    <<Id("items"), Id("prevItems")>>,
    <<Member("props", "row"), Id("prevItems")>>,
    <<NumericLiteral(5), Id("items")>>,
    <<Id("items"), NumericLiteral(5)>> }

Operators == {"!==", "!=", "==="}

Atoms ==
  { Not(Id(stateVar)), Not(Id("prop")), Id(stateVar), Id("prop") }
  \cup { Binary(op, p[1], p[2]) : op \in Operators, p \in OperandPairs }

\* the operands of && and ||
CoreAtoms ==
  { Not(Id(stateVar)), Id(stateVar), Id("prop"),
    Binary("!==", Id(stateVar), Id("prop")),
    Binary("!==", Id("items"), Id("prevItems")),
    Binary("!==", Member(stateVar, "id"), NumericLiteral(5)) }

\* the tests of the `if` nearest to the call
Conditions ==
  Atoms \cup { Logical(op, l, r) : op \in {"&&", "||"}, l \in CoreAtoms, r \in CoreAtoms }

\* the tests of the `if`s further out
OuterConditions ==
  { Id("prop"), Not(Id(stateVar)),
    Binary("!==", Id("prop"), Id(stateVar)),
    Binary("!==", Id("items"), Id("prevItems")) }

\* the setter calls: setState(<argument>), setState(), fetchAndSet()
SetterCalls ==
  { CallExpression(Id(setterName), <<a>>) :
      a \in { BooleanLiteral(TRUE), BooleanLiteral(FALSE), NullLiteral, Id("undefined"),
              NumericLiteral(0), NumericLiteral(5), Id(stateVar), Id("prop"),
              Member("props", "row"),
              ArrayExpression(<< >>), ObjectExpression(<< >>),
              ObjectExpression(<<SpreadElement(Id(stateVar)), ObjectProperty("id")>>) } }
  \cup { CallExpression(Id(setterName), << >>), CallExpression(Id("fetchAndSet"), << >>) }

\* the statements of a block: `if (test) return;`, a statement that holds
\* the setter call, any other statement
ReturnIf(test) ==
  [type |-> "IfStatement", test |-> test,
   consequent |-> [type |-> "ReturnStatement"], containsSetter |-> FALSE]
SetterStatement ==
  [type |-> "ExpressionStatement", test |-> NoNode,
   consequent |-> NoNode, containsSetter |-> TRUE]
OtherStatement ==
  [type |-> "ExpressionStatement", test |-> NoNode,
   consequent |-> NoNode, containsSetter |-> FALSE]

BlockStatement(body) == [type |-> "BlockStatement", body |-> body]
IfStatement(test) == [type |-> "IfStatement", test |-> test]

\* the block that holds the call's statement: alone, or after an early return
InnerBlocks ==
  { BlockStatement(<<SetterStatement>>),
    BlockStatement(<<ReturnIf(Binary("===", Id(stateVar), Id("prop"))), SetterStatement>>) }

\* the body of the function
OuterBlocks ==
  InnerBlocks
  \cup { BlockStatement(<<ReturnIf(Binary("===", Id(stateVar), Id("prop"))),
                          OtherStatement, SetterStatement>>),
         BlockStatement(<<ReturnIf(Binary("===", Id("prop"), Id("other"))),
                          SetterStatement>>) }

\* the `if` statements around a setter call
MaxIfs == 2

RECURSIVE OuterTests(_)
\* the tests of k `if`s further out, nearest first
OuterTests(k) ==
  IF k = 0 THEN { << >> }
  ELSE { <<c>> \o rest : c \in OuterConditions, rest \in OuterTests(k - 1) }

\* the tests of the `if`s around a call, nearest first: none, or the nearest
\* and up to MaxIfs - 1 further out
IfTests ==
  { << >> }
  \cup { <<c>> \o rest : c \in Conditions,
                         rest \in UNION { OuterTests(k) : k \in 0..(MaxIfs - 1) } }

RECURSIVE EnclosingIfs(_, _)
\* the ancestors from the i-th `if` outwards: each `if` and, further out,
\* the block it stands in
EnclosingIfs(tests, i) ==
  IF i > Len(tests) THEN << >>
  ELSE IF i = Len(tests) THEN <<IfStatement(tests[i])>>
  ELSE <<IfStatement(tests[i]), BlockStatement(<<SetterStatement>>)>>
         \o EnclosingIfs(tests, i + 1)

\* effect-analyzer: getAncestorStack. The call, its statement, the block of
\* that statement and the `if`s around it when there are any, the body of
\* the function, the function.
getAncestorStack(gc) ==
  <<gc.setterCall, [type |-> "ExpressionStatement"]>>
  \o (IF Len(gc.tests) = 0 THEN << >> ELSE <<gc.innerBlock>> \o EnclosingIfs(gc.tests, 1))
  \o <<gc.outerBlock, [type |-> "ArrowFunctionExpression"]>>

NoGuard == [guardType |-> "none", isSafe |-> FALSE]

IsIdentifierNamed(node, n) == node.type = "Identifier" /\ node.name = n

\* the operator test letting === and == pass as well
isAnyEqualityOperator(operator) == operator \in {"!==", "!=", "===", "=="}

\* operator === '!==' || operator === '!='
isInequalityOperator(operator) == operator \in {"!==", "!="}

\* utils: usesObjectSpread (the Object.assign form is not among the inputs)
usesObjectSpread(setterArg, sv) ==
  \/ /\ setterArg.type = "ObjectExpression"
     /\ \E i \in 1..Len(setterArg.properties) :
          /\ setterArg.properties[i].type = "SpreadElement"
          /\ IsIdentifierNamed(setterArg.properties[i].argument, sv)
  \/ /\ setterArg.type = "ArrayExpression"
     /\ \E i \in 1..Len(setterArg.elements) :
          /\ setterArg.elements[i].type = "SpreadElement"
          /\ IsIdentifierNamed(setterArg.elements[i].argument, sv)

isFalsyLiteralNode(node) ==
  \/ node.type = "BooleanLiteral" /\ node.value = FALSE
  \/ node.type = "NumericLiteral" /\ node.value = 0
  \/ node.type = "StringLiteral" /\ node.value = ""
  \/ node.type = "NullLiteral"
  \/ IsIdentifierNamed(node, "undefined")

IsMemberOf(node, sv) ==
  node.type = "MemberExpression" /\ IsIdentifierNamed(node.object, sv)

RECURSIVE analyzeCondition(_, _, _, _)
analyzeCondition(condition, sv, setterCall, sn) ==
  LET setterArg == FirstArgument(setterCall)
      toggle == [guardType |-> "toggle-guard", isSafe |-> TRUE]
      equality == [guardType |-> "equality-guard", isSafe |-> TRUE]
  IN
  IF condition.type = "none" THEN NoGuard
  \* Pattern 1
  ELSE IF /\ condition.type = "UnaryExpression" /\ condition.operator = "!"
          /\ IsIdentifierNamed(condition.argument, sv)
          /\ IF setterArg.type # "none"
             THEN \/ setterArg.type = "BooleanLiteral" /\ setterArg.value = TRUE
                  \/ ~IsIdentifierNamed(setterArg, sv)
             ELSE /\ setterCall.callee.type = "Identifier"
                  /\ setterCall.callee.name # sn
  THEN toggle
  \* Pattern 1b
  ELSE IF /\ IsIdentifierNamed(condition, sv)
          /\ \/ setterArg.type = "BooleanLiteral" /\ setterArg.value = FALSE
             \/ setterArg.type = "NullLiteral"
             \/ IsIdentifierNamed(setterArg, "undefined")
  THEN toggle
  \* Pattern 2
  ELSE IF /\ condition.type = "BinaryExpression"
          /\ isInequalityOperator(condition.operator)
          /\ \/ IsIdentifierNamed(condition.left, sv)
             \/ IsIdentifierNamed(condition.right, sv)
  THEN equality
  ELSE IF /\ condition.type = "BinaryExpression"
          /\ isInequalityOperator(condition.operator)
          /\ \/ IsMemberOf(condition.left, sv)
             \/ IsMemberOf(condition.right, sv)
  THEN IF setterArg.type # "none" /\ usesObjectSpread(setterArg, sv)
       THEN [guardType |-> "object-spread-risk", isSafe |-> FALSE]
       ELSE equality
  \* Pattern 3
  ELSE IF condition.type = "LogicalExpression" /\ condition.operator = "&&"
  THEN LET leftResult == analyzeCondition(condition.left, sv, setterCall, sn)
           rightResult == analyzeCondition(condition.right, sv, setterCall, sn)
       IN IF leftResult.isSafe THEN leftResult
          ELSE IF rightResult.isSafe THEN rightResult
          ELSE NoGuard
  ELSE NoGuard

RECURSIVE nodesAreEquivalent(_, _)
nodesAreEquivalent(a, b) ==
  IF a.type = "none" \/ b.type = "none" THEN FALSE
  ELSE IF a.type # b.type THEN FALSE
  ELSE IF a.type = "Identifier" THEN a.name = b.name
  ELSE IF a.type = "MemberExpression"
  THEN IF ~nodesAreEquivalent(a.object, b.object) THEN FALSE
       ELSE LET propA == a.property
                propB == b.property
            IN IF /\ propA.type = "Identifier" /\ ~a.computed
                  /\ propB.type = "Identifier" /\ ~b.computed
               THEN propA.name = propB.name
               ELSE IF /\ propA.type = "StringLiteral" /\ a.computed
                       /\ propB.type = "StringLiteral" /\ b.computed
               THEN propA.value = propB.value
               ELSE IF /\ propA.type = "Identifier" /\ ~a.computed
                       /\ propB.type = "StringLiteral" /\ b.computed
               THEN propA.name = propB.value
               ELSE IF /\ propA.type = "StringLiteral" /\ a.computed
                       /\ propB.type = "Identifier" /\ ~b.computed
               THEN propA.value = propB.name
               ELSE nodesAreEquivalent(propA, propB)
  ELSE IF a.type \in {"NumericLiteral", "StringLiteral", "BooleanLiteral"}
  THEN a.value = b.value
  ELSE a.type = "NullLiteral"

RECURSIVE analyzeRenderGuardCondition(_, _, _)
analyzeRenderGuardCondition(condition, sv, setterCall) ==
  LET setterArg == FirstArgument(setterCall)
      derived == [guardType |-> "derived-state", isSafe |-> TRUE]
      toggle == [guardType |-> "toggle-guard", isSafe |-> TRUE]
      isInequality ==
        condition.type = "BinaryExpression" /\ isInequalityOperator(condition.operator)
      hasStateOnLeft == IsIdentifierNamed(condition.left, sv)
      hasStateOnRight == IsIdentifierNamed(condition.right, sv)
      otherSide == IF hasStateOnLeft THEN condition.right ELSE condition.left
      isStrictResetValue ==
        \/ setterArg.type = "NullLiteral"
        \/ IsIdentifierNamed(setterArg, "undefined")
        \/ setterArg.type = "BooleanLiteral" /\ setterArg.value = FALSE
        \/ setterArg.type = "ArrayExpression" /\ Len(setterArg.elements) = 0
        \/ setterArg.type = "ObjectExpression" /\ Len(setterArg.properties) = 0
      isFalsyResetValue ==
        \/ setterArg.type = "NumericLiteral" /\ setterArg.value = 0
        \/ setterArg.type = "StringLiteral" /\ setterArg.value = ""
  IN
  IF condition.type = "none" THEN NoGuard
  \* Pattern 1
  ELSE IF /\ isInequality
          /\ hasStateOnLeft \/ hasStateOnRight
          /\ setterArg.type # "none" /\ nodesAreEquivalent(setterArg, otherSide)
  THEN derived
  ELSE IF /\ isInequality
          /\ condition.left.type \in {"Identifier", "MemberExpression"}
          /\ condition.right.type \in {"Identifier", "MemberExpression"}
          /\ isStrictResetValue \/ isFalsyResetValue
  THEN derived
  \* Pattern 2
  ELSE IF /\ condition.type = "UnaryExpression" /\ condition.operator = "!"
          /\ IsIdentifierNamed(condition.argument, sv)
          /\ setterArg.type # "none" /\ ~isFalsyLiteralNode(setterArg)
  THEN toggle
  \* Pattern 3
  ELSE IF IsIdentifierNamed(condition, sv) /\ isFalsyLiteralNode(setterArg)
  THEN toggle
  \* Pattern 4
  ELSE IF condition.type = "LogicalExpression" /\ condition.operator = "&&"
  THEN LET leftResult == analyzeRenderGuardCondition(condition.left, sv, setterCall)
           rightResult == analyzeRenderGuardCondition(condition.right, sv, setterCall)
       IN IF leftResult.isSafe THEN leftResult
          ELSE IF rightResult.isSafe THEN rightResult
          ELSE NoGuard
  ELSE NoGuard

RECURSIVE referencesIdentifier(_, _)
\* a referenced identifier named sv at the node or below it (the name of a
\* non-computed property is no reference)
referencesIdentifier(node, sv) ==
  IF node.type = "Identifier" THEN node.name = sv
  ELSE IF node.type = "UnaryExpression" THEN referencesIdentifier(node.argument, sv)
  ELSE IF node.type \in {"BinaryExpression", "LogicalExpression"}
  THEN referencesIdentifier(node.left, sv) \/ referencesIdentifier(node.right, sv)
  ELSE IF node.type = "MemberExpression"
  THEN \/ referencesIdentifier(node.object, sv)
       \/ node.computed /\ referencesIdentifier(node.property, sv)
  ELSE FALSE

\* utils: conditionInvolvesState. traverse() visits the nodes below the one
\* it is given, not that node itself.
conditionInvolvesState(condition, sv) ==
  IF condition.type = "UnaryExpression" THEN referencesIdentifier(condition.argument, sv)
  ELSE IF condition.type \in {"BinaryExpression", "LogicalExpression"}
  THEN referencesIdentifier(condition.left, sv) \/ referencesIdentifier(condition.right, sv)
  ELSE IF condition.type = "MemberExpression"
  THEN \/ referencesIdentifier(condition.object, sv)
       \/ condition.computed /\ referencesIdentifier(condition.property, sv)
  ELSE FALSE

\* the 1-based position of the first statement that contains the call, 0 if
\* none does
SetterIndex(body) ==
  IF \E i \in 1..Len(body) : body[i].containsSetter
  THEN CHOOSE i \in 1..Len(body) :
         body[i].containsSetter /\ \A j \in 1..(i - 1) : ~body[j].containsSetter
  ELSE 0

checkEarlyReturnPattern(blockStatement, setterCall, sv) ==
  LET body == blockStatement.body
      setterIndex == SetterIndex(body)
  IN /\ setterIndex > 1
     /\ \E i \in 1..(setterIndex - 1) :
          /\ body[i].type = "IfStatement"
          /\ body[i].consequent.type = "ReturnStatement"
          /\ conditionInvolvesState(body[i].test, sv)

RECURSIVE ConditionalGuardFrom(_, _, _, _, _)
\* the loop of analyzeConditionalGuard from position i down to the call
ConditionalGuardFrom(i, setterCall, ancestorStack, sn, sv) ==
  IF i < 1 THEN NoGuard
  ELSE LET ancestor == ancestorStack[i]
           guardType ==
             IF ancestor.type = "IfStatement"
             THEN analyzeCondition(ancestor.test, sv, setterCall, sn)
             ELSE NoGuard
       IN IF guardType.guardType # "none" THEN guardType
          ELSE IF /\ ancestor.type = "BlockStatement"
                  /\ checkEarlyReturnPattern(ancestor, setterCall, sv)
          THEN [guardType |-> "early-return", isSafe |-> TRUE]
          ELSE ConditionalGuardFrom(i - 1, setterCall, ancestorStack, sn, sv)

analyzeConditionalGuard(setterCall, ancestorStack, sn, sv) ==
  IF sv = "" THEN NoGuard
  ELSE ConditionalGuardFrom(Len(ancestorStack), setterCall, ancestorStack, sn, sv)

RECURSIVE RenderGuardFrom(_, _, _, _, _)
\* the loop of analyzeRenderPhaseGuard from position i outwards
RenderGuardFrom(i, isGuarded, setterCall, ancestorStack, sv) ==
  IF i > Len(ancestorStack)
  THEN IF isGuarded THEN [guardType |-> "unknown", isSafe |-> FALSE] ELSE NoGuard
  ELSE LET ancestor == ancestorStack[i]
           result ==
             IF ancestor.type = "IfStatement"
             THEN analyzeRenderGuardCondition(ancestor.test, sv, setterCall)
             ELSE NoGuard
       IN IF result.guardType # "none" THEN result
          ELSE RenderGuardFrom(i + 1, isGuarded \/ ancestor.type = "IfStatement",
                               setterCall, ancestorStack, sv)

analyzeRenderPhaseGuard(setterCall, ancestorStack, sn, sv) ==
  RenderGuardFrom(2, FALSE, setterCall, ancestorStack, sv)

Classified(variant, r) ==
  [variant |-> variant, guardType |-> r.guardType, isSafe |-> r.isSafe]

\* the effect analyzer asks for the guard of a setter call in an effect body
AnalyzeEffectGuard ==
  /\ guardResult.variant = "pending"
  /\ guardResult' = Classified("effect",
       analyzeConditionalGuard(guardCase.setterCall, getAncestorStack(guardCase),
                               setterName, stateVar))
  /\ UNCHANGED <<guardCase, exceptGuard>>

\* the render-phase detector asks for the guard of a setter call in a render body
AnalyzeRenderGuard ==
  /\ guardResult.variant = "pending"
  /\ guardResult' = Classified("render",
       analyzeRenderPhaseGuard(guardCase.setterCall, getAncestorStack(guardCase),
                               setterName, stateVar))
  /\ UNCHANGED <<guardCase, exceptGuard>>

GuardInit ==
  /\ \E call \in SetterCalls, tests \in IfTests, inner \in InnerBlocks, outer \in OuterBlocks :
       /\ Len(tests) = 0 => inner = BlockStatement(<<SetterStatement>>)
       /\ guardCase = [setterCall |-> call, tests |-> tests,
                       innerBlock |-> inner, outerBlock |-> outer]
  /\ guardResult = Classified("pending", NoGuard)
  /\ SchedIdle /\ HooksIdle /\ PropIdle /\ ExpandIdle /\ LaterIdle

GuardNext ==
  \/ AnalyzeEffectGuard
  \/ AnalyzeRenderGuard

SpecGuard == GuardInit /\ [][GuardNext]_vars

(***************************************************************************)
(* Claims about the guard classification.  The shapes below are the ones   *)
(* the design lists as safe, stated on the condition and the setter call.  *)
(***************************************************************************)
\* the setter argument spreads the state into a new object or array
SpreadsState(call) ==
  /\ Len(call.arguments) > 0
  /\ call.arguments[1].type \in {"ObjectExpression", "ArrayExpression"}
  /\ LET parts == IF call.arguments[1].type = "ObjectExpression"
                  THEN call.arguments[1].properties
                  ELSE call.arguments[1].elements
     IN \E i \in 1..Len(parts) :
          parts[i].type = "SpreadElement" /\ parts[i].argument = Id(stateVar)

HasFalsyLiteralArgument(call) ==
  /\ Len(call.arguments) > 0
  /\ call.arguments[1] \in { BooleanLiteral(FALSE), NullLiteral, Id("undefined"),
                             NumericLiteral(0), StringLiteral("") }

IsComparisonForInequality(c) ==
  c.type = "BinaryExpression" /\ c.operator \in {"!==", "!="}

IsPropertyOfState(n) ==
  n.type = "MemberExpression" /\ n.object = Id(stateVar)

RECURSIVE ListedShape(_, _)
\* the condition c around the call has one of the shapes listed as safe:
\* !state with an argument other than the state (or a call without argument
\* of a function that is not the setter); state with a falsy literal
\* argument; an inequality with the state as an operand; an inequality on a
\* property of the state whose argument does not spread the state; a
\* conjunction with such a side
ListedShape(c, call) ==
  \/ /\ c = Not(Id(stateVar))
     /\ IF Len(call.arguments) > 0 THEN call.arguments[1] # Id(stateVar)
        ELSE call.callee # Id(setterName)
  \/ c = Id(stateVar) /\ HasFalsyLiteralArgument(call)
  \/ IsComparisonForInequality(c) /\ (c.left = Id(stateVar) \/ c.right = Id(stateVar))
  \/ /\ IsComparisonForInequality(c)
     /\ IsPropertyOfState(c.left) \/ IsPropertyOfState(c.right)
     /\ ~SpreadsState(call)
  \/ /\ c.type = "LogicalExpression" /\ c.operator = "&&"
     /\ ListedShape(c.left, call) \/ ListedShape(c.right, call)

HasResetArgument(call) ==
  /\ Len(call.arguments) > 0
  /\ call.arguments[1] \in { NullLiteral, Id("undefined"), BooleanLiteral(FALSE),
                             ArrayExpression(<< >>), ObjectExpression(<< >>),
                             NumericLiteral(0), StringLiteral("") }

RECURSIVE RenderOnlyShape(_, _)
\* the two shapes only the render-phase variant takes as safe: an inequality
\* between two identifiers or member expressions with a reset value as the
\* argument; !state with an argument that is no falsy literal
RenderOnlyShape(c, call) ==
  \/ /\ IsComparisonForInequality(c)
     /\ c.left.type \in {"Identifier", "MemberExpression"}
     /\ c.right.type \in {"Identifier", "MemberExpression"}
     /\ HasResetArgument(call)
  \/ /\ c = Not(Id(stateVar))
     /\ Len(call.arguments) > 0 /\ ~HasFalsyLiteralArgument(call)
  \/ /\ c.type = "LogicalExpression" /\ c.operator = "&&"
     /\ RenderOnlyShape(c.left, call) \/ RenderOnlyShape(c.right, call)

\* a block around the call has `if (<test with the state>) return;` before
\* the call's statement
HasEarlyReturnOnState ==
  \E b \in {guardCase.innerBlock, guardCase.outerBlock} :
    /\ b \in { getAncestorStack(guardCase)[i] : i \in 1..Len(getAncestorStack(guardCase)) }
    /\ \E i \in 1..Len(b.body) :
         /\ b.body[i].type = "IfStatement"
         /\ b.body[i].consequent.type = "ReturnStatement"
         /\ referencesIdentifier(b.body[i].test, stateVar)
         /\ \E j \in (i + 1)..Len(b.body) : b.body[j].containsSetter

SomeIfHasListedShape ==
  \E i \in 1..Len(guardCase.tests) : ListedShape(guardCase.tests[i], guardCase.setterCall)

SomeIfHasRenderOnlyShape ==
  \E i \in 1..Len(guardCase.tests) : RenderOnlyShape(guardCase.tests[i], guardCase.setterCall)

RecognizedIfs ==
  { i \in 1..Len(guardCase.tests) :
      analyzeCondition(guardCase.tests[i], stateVar, guardCase.setterCall,
                       setterName).guardType # "none" }

\* the classification of the nearest of them
NearestRecognizedIf ==
  analyzeCondition(
    guardCase.tests[CHOOSE i \in RecognizedIfs : \A j \in RecognizedIfs : i <= j],
    stateVar, guardCase.setterCall, setterName)

\* C13: the effect variant examines the ancestors of the call nearest
\* first: when an `if` around the call is recognized, the classification
\* returned is that of the nearest recognized `if`, not of one further out.
C13_NearestIfClassifies ==
  (guardResult.variant = "effect" /\ RecognizedIfs # {}) =>
    /\ guardResult.guardType = NearestRecognizedIf.guardType
    /\ guardResult.isSafe = NearestRecognizedIf.isSafe

RECURSIVE ComparesStateWithArgument(_, _)
\* the condition c is an inequality between the state and an expression the
\* argument of the call is structurally equivalent to (or a conjunction
\* with such a side)
ComparesStateWithArgument(c, call) ==
  \/ /\ IsComparisonForInequality(c)
     /\ Len(call.arguments) > 0
     /\ \/ c.left = Id(stateVar) /\ nodesAreEquivalent(call.arguments[1], c.right)
        \/ c.right = Id(stateVar) /\ nodesAreEquivalent(call.arguments[1], c.left)
  \/ /\ c.type = "LogicalExpression" /\ c.operator = "&&"
     /\ ComparesStateWithArgument(c.left, call) \/ ComparesStateWithArgument(c.right, call)

\* C14: the render-phase variant classifies a guard as derived-state (safe)
\* only when an `if` around the call is an inequality between the state and
\* an external expression and the setter's argument is structurally
\* equivalent to that expression.
C14_DerivedStateNeedsEquivalentArgument ==
  (guardResult.variant = "render" /\ guardResult.guardType = "derived-state") =>
    \E i \in 1..Len(guardCase.tests) :
      ComparesStateWithArgument(guardCase.tests[i], guardCase.setterCall)

\* the block the statement of the call stands in
BlockOfCall ==
  IF Len(guardCase.tests) = 0 THEN guardCase.outerBlock ELSE guardCase.innerBlock

\* the statement of the call is immediately preceded, in its block, by
\* `if (<test with the state>) return;`
ImmediatelyAfterReturnOnState ==
  \E j \in 2..Len(BlockOfCall.body) :
    /\ BlockOfCall.body[j].containsSetter
    /\ BlockOfCall.body[j - 1].type = "IfStatement"
    /\ BlockOfCall.body[j - 1].consequent.type = "ReturnStatement"
    /\ referencesIdentifier(BlockOfCall.body[j - 1].test, stateVar)

\* C15: the effect variant returns the early-return classification only
\* when no recognized `if` is around the call and the statement of the call
\* is immediately preceded, in the same block, by an `if` on the state that
\* returns.
C15_EarlyReturnOnlyAsFallback ==
  (guardResult.variant = "effect" /\ guardResult.guardType = "early-return") =>
    /\ RecognizedIfs = {}
    /\ ImmediatelyAfterReturnOnState

(***************************************************************************)
(* Confidence adjustment (unnamed/part_002, _adjustConfidence).  A pure    *)
(* function: the specification draws its arguments and applies it once.    *)
(* An absent context field is falsy: usedTypeInference, isConditional and  *)
(* isStrictMode absent behave as false, crossFileChainDepth absent as 0.   *)
(***************************************************************************)
MaxChainDepth == 4

ConfidenceLevel == {"high", "medium", "low"}

Contexts ==
  [ usedTypeInference : BOOLEAN, crossFileChainDepth : 0..MaxChainDepth,
    isConditional : BOOLEAN, isStrictMode : BOOLEAN ]

\* The first rule without its test of the current level.
adjustForTypeInferenceAnyLevel(c, context) ==
  IF context.usedTypeInference /\ ~context.isStrictMode THEN "medium" ELSE c

\* Type inference was used outside strict mode: high becomes medium.
adjustForTypeInference(c, context) ==
  IF context.usedTypeInference /\ ~context.isStrictMode /\ c = "high"
  THEN "medium" ELSE c

\* A cross-file chain deeper than 2: high becomes medium.
adjustForChainDepth(c, context) ==
  IF context.crossFileChainDepth # 0 /\ context.crossFileChainDepth > 2 /\ c = "high"
  THEN "medium" ELSE c

\* A conditional path: high becomes medium.
adjustForConditional(c, context) ==
  IF context.isConditional /\ c = "high" THEN "medium" ELSE c

\* The three rules, applied in the order of the code.
adjustConfidence(baseConfidence, context) ==
  adjustForConditional(
    adjustForChainDepth(
      adjustForTypeInference(baseConfidence, context), context), context)

ConfInit ==
  /\ \E baseConfidence \in ConfidenceLevel, context \in Contexts :
       adjustCase = [ baseConfidence |-> baseConfidence, context |-> context ]
  /\ confidence = "none"
  /\ EarlierIdle /\ InteractIdle /\ ExtractIdle /\ StableIdle /\ TailIdle

AdjustConfidence ==
  /\ confidence = "none"
  /\ confidence' = adjustConfidence(adjustCase.baseConfidence, adjustCase.context)
  /\ UNCHANGED <<adjustCase, exceptConf>>

ConfNext == AdjustConfidence

SpecConf == ConfInit /\ [][ConfNext]_vars

\* The order of the levels: low < medium < high.
ConfidenceRank(c) == CASE c = "low" -> 1 [] c = "medium" -> 2 [] c = "high" -> 3

\* C11: whatever the base level and whatever combination of conditions the
\* context holds, the level _adjustConfidence returns is never above the
\* base level: it is the base level, or a lower one.
C11_NeverIncreases ==
  confidence # "none" =>
    ConfidenceRank(confidence) <= ConfidenceRank(adjustCase.baseConfidence)

\* A rule has acted: a high base level with a chain deeper than 2 came back medium.
C11_Witness ==
  /\ confidence = "medium"
  /\ adjustCase.baseConfidence = "high"
  /\ adjustCase.context.crossFileChainDepth > 2
  /\ ~adjustCase.context.isConditional
  /\ ~adjustCase.context.usedTypeInference

(***************************************************************************)
(* analyzeStateInteractions (effect-analyzer.ts): where a call in an       *)
(* effect body that reaches a setter is recorded.                          *)
(*                                                                         *)
(* hookBody is what the analysis sees of the effect callback:              *)
(*   functions  the function nodes inside the body in source order, each   *)
(*              with the way it is written (how), the callee it is an      *)
(*              argument of (receiver), the name it is bound to (name)     *)
(*              and the function it stands in (parent, 0: the body)        *)
(*   passed     <<receiver, name>>: the name is an argument of a call of   *)
(*              the receiver                                               *)
(*   returned   the names in `return <name>;` statements of the body       *)
(*   call       the call looked at: its callee, the function it stands     *)
(*              in, and what analyzeConditionalGuard makes of its          *)
(*              ancestors ("none": null)                                   *)
(* One name is bound to at most one function of the body.                  *)
(***************************************************************************)
MaxFunctions == 2

ASYNC_CALLBACK_FUNCTIONS ==
  { "setTimeout", "setInterval", "requestAnimationFrame", "requestIdleCallback",
    "then", "catch", "finally", "onSnapshot", "onAuthStateChanged", "onValue",
    "onChildAdded", "onChildChanged", "onChildRemoved", "subscribe", "observe",
    "addEventListener" }

\* the callees functions are handed to: a timer, an event API, an array method
Receivers == {"setInterval", "addEventListener", "map"}

\* stateInfo: the setters of the component
setterNames == {"setA", "setB"}

\* the setters a local function reaches (buildLocalFunctionSetterMap)
localFunctionSetters(name) == IF name = "helper" THEN {"setB"} ELSE {}

\* a function expression that is an argument of a call of receiver
FunctionArgument(receiver, parent) ==
  [how |-> "argument", receiver |-> receiver, name |-> "", parent |-> parent]
\* const name = () => { ... }
FunctionVariable(name, parent) ==
  [how |-> "VariableDeclarator", receiver |-> "", name |-> name, parent |-> parent]
\* function name() { ... }
FunctionDeclaration(name, parent) ==
  [how |-> "FunctionDeclaration", receiver |-> "", name |-> name, parent |-> parent]
\* return () => { ... };
ReturnedFunction(parent) ==
  [how |-> "ReturnStatement", receiver |-> "", name |-> "", parent |-> parent]

FunctionNodes(parents) ==
  { FunctionArgument(r, p) : r \in Receivers, p \in parents }
  \cup { FunctionVariable("handler", p) : p \in parents }
  \cup { FunctionDeclaration("handler", p) : p \in parents }
  \cup { ReturnedFunction(p) : p \in parents }

RECURSIVE FunctionLists(_)
\* the lists of n function nodes, each standing in the body or in an earlier one
FunctionLists(n) ==
  IF n = 0 THEN { << >> }
  ELSE { Append(fs, f) : fs \in FunctionLists(n - 1), f \in FunctionNodes(0..(n - 1)) }

OneBindingPerName(fs) ==
  \A i, j \in 1..Len(fs) : (fs[i].name # "" /\ fs[i].name = fs[j].name) => i = j

HookBodies ==
  { [functions |-> fs, passed |-> passed, returned |-> returned]
      : fs \in { l \in UNION { FunctionLists(n) : n \in 0..MaxFunctions } :
                   OneBindingPerName(l) },
        passed \in { {} } \cup { {<<r, "handler">>} : r \in Receivers },
        returned \in { {}, {"handler"} } }

EmptyInteractions ==
  [ modifications |-> {}, conditionalModifications |-> {},
    deferredModifications |-> {}, guardedModifications |-> {},
    cleanupModifications |-> {} ]

\* first pass, ReturnStatement: the function expressions that are the
\* argument of a return statement
returnedFunctionNodes(body) ==
  { i \in 1..Len(body.functions) : body.functions[i].how = "ReturnStatement" }

\* first pass, VariableDeclarator and FunctionDeclaration: name -> node
\* (0: the map has no entry)
localFunctions(body, name) ==
  IF \E i \in 1..Len(body.functions) : body.functions[i].name = name
  THEN CHOOSE i \in 1..Len(body.functions) :
         /\ body.functions[i].name = name
         /\ \A j \in 1..Len(body.functions) : body.functions[j].name = name => j <= i
  ELSE 0

\* first pass, CallExpression: the function expressions handed to an
\* asynchronous receiver
inlineAsyncCallbackNodes(body) ==
  { i \in 1..Len(body.functions) :
      /\ body.functions[i].how = "argument"
      /\ body.functions[i].receiver \in ASYNC_CALLBACK_FUNCTIONS }

\* first pass, CallExpression: the identifiers handed to an asynchronous receiver
namedAsyncCallbackRefs(body) ==
  { p[2] : p \in { q \in body.passed : q[1] \in ASYNC_CALLBACK_FUNCTIONS } }

\* the names handed to an asynchronous receiver are left unresolved
namedAsyncCallbacksUnresolved(body) == {}

\* the loop after the first pass: the nodes of the named functions
resolvedAsyncCallbackNodes(body) ==
  { localFunctions(body, name) : name \in namedAsyncCallbackRefs(body) } \ {0}

RECURSIVE enclosingFunctions(_, _)
\* the functions around a node that stands in function i, nearest first
enclosingFunctions(body, i) ==
  IF i = 0 THEN {}
  ELSE {i} \cup enclosingFunctions(body, body.functions[i].parent)

\* path.findParent((p) => nodes.has(p.node)) !== null
isInside(body, call, nodes) ==
  enclosingFunctions(body, call.in) \cap nodes # {}

\* main pass, CallExpression: a direct call of a setter, or a call of a
\* local function that reaches setters
visitCallExpression(body, call, asyncNodes, cleanupNodes, acc) ==
  LET setters == IF call.callee \in setterNames THEN {call.callee}
                 ELSE localFunctionSetters(call.callee)
  IN IF setters = {} THEN acc
     ELSE IF isInside(body, call, asyncNodes)
     THEN [acc EXCEPT !.deferredModifications = @ \cup setters]
     ELSE IF isInside(body, call, cleanupNodes)
     THEN [acc EXCEPT !.cleanupModifications = @ \cup setters]
     ELSE IF call.guard # "none"
     THEN [acc EXCEPT
             !.guardedModifications =
                @ \cup { [setter |-> s, isSafe |-> call.guard = "safe"] : s \in setters },
             !.conditionalModifications =
                IF call.guard = "safe" THEN @ ELSE @ \cup setters]
     ELSE [acc EXCEPT !.modifications = @ \cup setters]

InteractInit ==
  /\ \E body \in HookBodies, callee \in {"setA", "helper"},
        guard \in {"none", "safe", "unsafe"} :
       \E k \in 0..Len(body.functions) :
         hookBody = [ functions |-> body.functions, passed |-> body.passed,
                      returned |-> body.returned,
                      call |-> [callee |-> callee, in |-> k, guard |-> guard] ]
  /\ asyncCallbackNodes = {}
  /\ cleanupFunctionNodes = {}
  /\ interactions = EmptyInteractions
  /\ traversal = "first"
  /\ EarlierIdle /\ ConfIdle /\ ExtractIdle /\ StableIdle /\ TailIdle

\* the first traversal and the resolution of the named callbacks
FirstPass ==
  /\ traversal = "first"
  /\ cleanupFunctionNodes' = returnedFunctionNodes(hookBody)
  /\ asyncCallbackNodes' =
       inlineAsyncCallbackNodes(hookBody) \cup resolvedAsyncCallbackNodes(hookBody)
  /\ traversal' = "main"
  /\ UNCHANGED <<hookBody, interactions, exceptInteract>>

\* the main traversal reaches the call
MainPass ==
  /\ traversal = "main"
  /\ interactions' = visitCallExpression(hookBody, hookBody.call, asyncCallbackNodes,
                                         cleanupFunctionNodes, interactions)
  /\ traversal' = "done"
  /\ UNCHANGED <<hookBody, asyncCallbackNodes, cleanupFunctionNodes, exceptInteract>>

InteractNext ==
  \/ FirstPass
  \/ MainPass

SpecInteract == InteractInit /\ [][InteractNext]_vars

\* the call stands in a function the effect body hands to an asynchronous
\* receiver, inline or by the name of a function defined in the body
InDeferredCallback ==
  \E i \in enclosingFunctions(hookBody, hookBody.call.in) :
    LET f == hookBody.functions[i]
    IN \/ f.how = "argument" /\ f.receiver \in ASYNC_CALLBACK_FUNCTIONS
       \/ /\ f.name # ""
          /\ \E r \in ASYNC_CALLBACK_FUNCTIONS : <<r, f.name>> \in hookBody.passed

\* the call stands in the closure the effect body returns: a function
\* written in the return statement of the body, or a function defined in the
\* body whose name the body returns
InReturnedClosure ==
  \E i \in enclosingFunctions(hookBody, hookBody.call.in) :
    LET f == hookBody.functions[i]
    IN /\ f.parent = 0
       /\ \/ f.how = "ReturnStatement"
          \/ f.name # "" /\ f.name \in hookBody.returned

CountedNow ==
  interactions.modifications \cup interactions.conditionalModifications
    \cup { g.setter : g \in interactions.guardedModifications }

\* C16: a call in the closure returned from the effect body that reaches a
\* setter (a setter call, or a call of a local function that reaches one)
\* is recorded apart (as a modification of the cleanup, or as a deferred
\* one), and never as an unconditional, conditional or guarded modification.
C16_CleanupRecordedSeparately ==
  (traversal = "done" /\ InReturnedClosure) =>
    /\ CountedNow = {}
    /\ interactions.cleanupModifications \cup interactions.deferredModifications # {}

InOwnReturnedClosure ==
  \E i \in enclosingFunctions(hookBody, hookBody.call.in) :
    hookBody.functions[i].how = "ReturnStatement" /\ hookBody.functions[i].parent = 0

\* C30: a call that reaches a setter is recorded as a modification of the cleanup
\* only when it stands in the closure the effect callback itself returns; in a
\* function returned by another function nested in the effect body it is not.
C30_CleanupOnlyInOwnReturnedClosure ==
  (traversal = "done" /\ interactions.cleanupModifications # {}) => InOwnReturnedClosure

MaxDeclarations == 3

Components == {"A", "B"}

Declarations ==
  { [scope |-> s, name |-> "x", init |-> k] :
      s \in Components, k \in {"ObjectExpression", "useState", "useRef", "useMemo"} }
  \cup { [scope |-> "useData", name |-> "x", init |-> k] :
           k \in {"ObjectExpression", "useState", "useRef"} }
  \cup { [scope |-> "module", name |-> "x", init |-> "ObjectExpression"],
         [scope |-> "A", name |-> "y", init |-> "ObjectExpression"] }

RECURSIVE DeclarationLists(_)
DeclarationLists(n) ==
  IF n = 0 THEN { << >> }
  ELSE { Append(l, d) : l \in DeclarationLists(n - 1), d \in Declarations }

\* the top of componentStack while the declarator is visited ("": undefined)
getCurrentComponent(d) == IF d.scope \in Components THEN d.scope ELSE ""

EmptyExtraction ==
  [ unstableVars |-> {}, memoizedVars |-> {}, stateVars |-> {}, refVars |-> {},
    moduleLevelVars |-> {}, visited |-> 0, keysToDelete |-> {}, returned |-> FALSE ]

\* the VariableDeclarator visitor for `const <name> = <init>`
visitVariableDeclarator(e, d) ==
  LET currentComp == getCurrentComponent(d)
  IN CASE d.init = "useState" -> [e EXCEPT !.stateVars = @ \cup {d.name}]
       [] d.init = "useRef" -> [e EXCEPT !.refVars = @ \cup {d.name}]
       [] d.init = "useMemo" ->
            [e EXCEPT !.memoizedVars =
               @ \cup {<<IF currentComp = "" THEN "__module__" ELSE currentComp, d.name>>}]
       [] OTHER ->
            IF currentComp = "" THEN [e EXCEPT !.moduleLevelVars = @ \cup {d.name}]
            ELSE [e EXCEPT !.unstableVars = @ \cup {<<currentComp, d.name>>}]

\* the final pass without its test of refVars
keysToDeleteIgnoringRefs(e) ==
  { key \in e.unstableVars :
      \/ key \in e.memoizedVars
      \/ key[2] \in e.stateVars
      \/ key[2] \in e.moduleLevelVars }

\* the final pass: the keys <<componentName, name>> it deletes
keysToDelete(e) ==
  { key \in e.unstableVars :
      \/ key \in e.memoizedVars
      \/ key[2] \in e.stateVars
      \/ key[2] \in e.refVars
      \/ key[2] \in e.moduleLevelVars }

ExtractInit ==
  /\ \E n \in 1..MaxDeclarations : \E l \in DeclarationLists(n) : ast = l
  /\ extraction = EmptyExtraction
  /\ EarlierIdle /\ ConfIdle /\ InteractIdle /\ StableIdle /\ TailIdle

\* the traversal reaches the next declarator
VisitVariableDeclarator ==
  /\ extraction.visited < Len(ast)
  /\ extraction' = [visitVariableDeclarator(extraction, ast[extraction.visited + 1])
                      EXCEPT !.visited = @ + 1]
  /\ UNCHANGED <<ast, exceptExtract>>

\* after the traversal: the final pass, and the return of unstableVars
FinalPass ==
  /\ extraction.visited = Len(ast)
  /\ ~extraction.returned
  /\ extraction' = [extraction EXCEPT !.keysToDelete = keysToDelete(extraction),
                                      !.unstableVars = @ \ keysToDelete(extraction),
                                      !.returned = TRUE]
  /\ UNCHANGED <<ast, exceptExtract>>

ExtractNext ==
  \/ VisitVariableDeclarator
  \/ FinalPass

SpecExtract == ExtractInit /\ [][ExtractNext]_vars

\* the file declares name in function scope with initializer init
Declares(scope, name, init) ==
  \E i \in 1..Len(ast) : ast[i] = [scope |-> scope, name |-> name, init |-> init]

\* name is proven stable in the scope of component c: a state, ref or
\* memoized variable of c, or a variable of the module's top level
ProvenStableIn(c, name) ==
  \/ \E init \in {"useState", "useRef", "useMemo"} : Declares(c, name, init)
  \/ Declares("module", name, "ObjectExpression")

\* C18: when the extraction of a file completes, the returned set of
\* unstable variables holds no variable proven memoized, state, ref or
\* module-level: the final pass has removed every such entry.
C18_NoProvenStableReturned ==
  extraction.returned =>
    \A key \in extraction.unstableVars : ~ProvenStableIn(key[1], key[2])

\* component A declares x as an object literal and as a ref; the final pass
\* removed A's x, and A's y is returned
C18_Witness ==
  /\ extraction.returned
  /\ Declares("A", "x", "ObjectExpression") /\ Declares("A", "x", "useRef")
  /\ <<"A", "x">> \in extraction.keysToDelete
  /\ extraction.unstableVars = {<<"A", "y">>}

\* C19: unstable variables are kept per component: the final pass removes
\* an unstable local of a component only if its name was proven memoized,
\* state, ref or module-level in the scope of that component; a binding of
\* the same name in another component or function never removes it.
C19_RemovedOnlyByOwnScope ==
  extraction.returned =>
    \A key \in extraction.keysToDelete : ProvenStableIn(key[1], key[2])

(***************************************************************************)
(* isStableFunctionCall (orchestrator.ts).  A pure function of the call,   *)
(* the configuration and what the type checker answers for the call; the   *)
(* specification draws them and applies it once.  A regular expression of  *)
(* the configuration is given by the names it matches.                     *)
(***************************************************************************)
STABLE_REACT_HOOKS == {"useRef", "useId"}

STABLE_FUNCTION_CALLS == {"require", "String", "Number", "Boolean", "parseInt", "parseFloat"}

\* the names of the calls looked at
HookNames == {"useWindowSize", "useAppStore"}
CalleeNames == HookNames \cup {"useRef", "parseInt", "createConfig"}

\* name.startsWith('use')
startsWithUse(name) == name \in {"useRef", "useId", "useWindowSize", "useAppStore"}

\* /^use\w+Store$/
StorePattern == {"useAppStore"}

\* PRIMITIVE_RETURNING_METHODS, of the methods looked at
PRIMITIVE_RETURNING_METHODS == {"join", "get", "has"}

\* the callee of the call: name(...) or Lib.name(...)
Callees ==
  { [type |-> "Identifier", name |-> n] : n \in CalleeNames }
  \cup { [type |-> "MemberExpression", name |-> n] :
           n \in HookNames \cup {"join", "get", "has", "getState"} }

\* init.arguments.length, which isStableFunctionCall does not read
ArgumentCounts == {0, 1, 2}

NoConfig == [given |-> FALSE, stableHooks |-> {}, unstableHooks |-> {},
             stableHookPatterns |-> {}, unstableHookPatterns |-> {}]

StabilityConfigs ==
  { NoConfig }
  \cup { [given |-> TRUE, stableHooks |-> s, unstableHooks |-> u,
          stableHookPatterns |-> p, unstableHookPatterns |-> {}] :
           s \in {{}, {"useWindowSize"}}, u \in {{}, {"useWindowSize"}, {"useAppStore"}},
           p \in {{}, {StorePattern}} }

isConfiguredStableHook(hookName, config) ==
  \/ hookName \in config.stableHooks
  \/ \E pattern \in config.stableHookPatterns : hookName \in pattern

isConfiguredUnstableHook(hookName, config) ==
  \/ hookName \in config.unstableHooks
  \/ \E pattern \in config.unstableHookPatterns : hookName \in pattern

\* steps 4 and later: the type checker's answer when there is one, then the
\* use* heuristic and the method lists
stableByTypesOrHeuristics(callee, hasContext, checker) ==
  IF checker.present /\ hasContext /\ checker.typeStability # "null"
  THEN checker.typeStability
  ELSE IF callee.type = "Identifier" /\ startsWithUse(callee.name) THEN "true"
  ELSE IF /\ callee.type = "MemberExpression"
          /\ callee.name \in PRIMITIVE_RETURNING_METHODS \cup {"getState"}
  THEN "true"
  ELSE "false"

isStableFunctionCall(callee, hasContext, checker, config) ==
  IF callee.type = "Identifier" /\ callee.name \in STABLE_REACT_HOOKS THEN "true"
  ELSE IF callee.type = "Identifier" /\ callee.name \in STABLE_FUNCTION_CALLS THEN "true"
  ELSE IF /\ callee.type = "Identifier" /\ config.given
          /\ isConfiguredUnstableHook(callee.name, config)
  THEN "false"
  ELSE IF /\ callee.type = "Identifier" /\ config.given
          /\ isConfiguredStableHook(callee.name, config)
  THEN "true"
  ELSE stableByTypesOrHeuristics(callee, hasContext, checker)

StableInit ==
  /\ \E callee \in Callees, config \in StabilityConfigs, hasContext \in BOOLEAN,
        present \in BOOLEAN, typeStability \in {"true", "false", "null"},
        arguments \in ArgumentCounts :
       stabilityCase = [ callee |-> callee, arguments |-> arguments,
                         config |-> config, hasContext |-> hasContext,
                         typeChecker |-> [present |-> present,
                                          typeStability |-> typeStability] ]
  /\ isStable = "pending"
  /\ EarlierIdle /\ ConfIdle /\ InteractIdle /\ ExtractIdle /\ TailIdle

CheckStableFunctionCall ==
  /\ isStable = "pending"
  /\ isStable' = isStableFunctionCall(stabilityCase.callee, stabilityCase.hasContext,
                                      stabilityCase.typeChecker, stabilityCase.config)
  /\ UNCHANGED <<stabilityCase, exceptStable>>

StableNext == CheckStableFunctionCall

SpecStable == StableInit /\ [][StableNext]_vars

\* what the configuration says of the function called: "true" when only its
\* stable list or patterns name it, "false" when only its unstable ones do
ConfiguredVerdict ==
  LET name == stabilityCase.callee.name
      stable == isConfiguredStableHook(name, stabilityCase.config)
      unstable == isConfiguredUnstableHook(name, stabilityCase.config)
  IN IF stable /\ ~unstable THEN "true"
     ELSE IF unstable /\ ~stable THEN "false"
     ELSE "none"

\* C20: the configured lists and patterns come before any type
\* information: for a call of a function the configuration names, the
\* verdict is the configured one, whatever the type checker answers.
C20_ConfigurationDecides ==
  (isStable # "pending" /\ ConfiguredVerdict # "none") => isStable = ConfiguredVerdict

\* C21: the result of a .get(...) or .has(...) method call is taken as
\* stable only when the call has a single argument; without type
\* information a call with another number of arguments, such as
\* client.get(url, options), is unstable.
C21_GetIsStableOnlyWithOneArgument ==
  ( /\ isStable # "pending"
    /\ stabilityCase.callee.type = "MemberExpression"
    /\ stabilityCase.callee.name \in {"get", "has"}
    /\ ~stabilityCase.typeChecker.present
    /\ stabilityCase.arguments # 1 ) => isStable = "false"

(***************************************************************************)
(* detectCircularDependencies' choice of parser (src/key-analyzer.ts): the *)
(* worker pool or the sequential loop, with or without the persistent      *)
(* parse cache.                                                            *)
(***************************************************************************)
\* the largest number of React files a run finds (one above the threshold)
MaxReactFiles == 21

PARALLEL_THRESHOLD == 20

\* options.parallel: true, false, or not given
ParallelOptions == {"true", "false", "undefined"}

\* const useParallel = options.parallel === true ||
\*   (options.parallel !== false && reactFiles.length >= PARALLEL_THRESHOLD && !options.cache)
useParallel(options, reactFiles) ==
  \/ options.parallel = "true"
  \/ /\ options.parallel # "false"
     /\ reactFiles >= PARALLEL_THRESHOLD
     /\ ~options.cache

chosenParser(options, reactFiles) ==
  IF useParallel(options, reactFiles) THEN "parseFilesParallel" ELSE "parseFilesSequential"

ParseInit ==
  /\ \E parallel \in ParallelOptions, cache \in BOOLEAN, n \in 0..MaxReactFiles :
       parseOptions = [parallel |-> parallel, cache |-> cache, reactFiles |-> n]
  /\ parsing = [parser |-> "none", astCache |-> FALSE, saved |-> FALSE, done |-> FALSE]
  /\ EarlierIdle /\ MidIdle /\ NoDepsIdle /\ DocIdle /\ MapIdle

\* the if (useParallel) ... else ... of detectCircularDependencies: the AstCache is
\* constructed in the sequential branch only, and only when options.cache is set
ChooseParser ==
  /\ parsing.parser = "none"
  /\ LET parser == chosenParser(parseOptions, parseOptions.reactFiles) IN
       parsing' = [parsing EXCEPT
         !.parser = parser,
         !.astCache = (parser = "parseFilesSequential" /\ parseOptions.cache)]
  /\ UNCHANGED <<parseOptions, exceptParse>>

\* the chosen parser runs to its end; parseFilesSequential saves the cache it was given
ParseFiles ==
  /\ parsing.parser # "none"
  /\ ~parsing.done
  /\ parsing' = [parsing EXCEPT
       !.done = TRUE,
       !.saved = (parsing.parser = "parseFilesSequential" /\ parsing.astCache)]
  /\ UNCHANGED <<parseOptions, exceptParse>>

ParseNext == ChooseParser \/ ParseFiles

SpecParse == ParseInit /\ [][ParseNext]_vars

\* C22: whenever the run was asked to use the persistent parse cache, the files are
\* parsed by the sequential loop and never by the worker pool, whatever the parallel
\* option says and however many files there are.
C22_CacheDisablesParallel ==
  (parseOptions.cache /\ parsing.parser # "none") => parsing.parser = "parseFilesSequential"

(***************************************************************************)
(* detectUseEffectWithoutDeps (src/effect-analyzer.ts): an effect hook     *)
(* called with the callback only, and the calls its callback contains.     *)
(***************************************************************************)
\* how many calls the callback of the hook contains
MaxBodyCalls == 3

\* the calls of a callback: a setter, a local function that reaches a setter, one that
\* reaches none, a method of a local object that reaches a setter, one that reaches none
BodyCallees ==
  {[type |-> "Identifier", name |-> n] : n \in setterNames \cup {"helper", "log"}}
    \cup {[type |-> "MemberExpression", name |-> n] : n \in {"utils.update", "utils.read"}}

\* the first pass's functionsCallingSetters: local function -> the setters it calls
functionsCallingSettersGet(name) == IF name = "helper" THEN <<"setB">> ELSE << >>

\* the first pass's objectMethodsCallingSetters: object.method -> the setters it calls
objectMethodsCallingSettersGet(methodKey) ==
  IF methodKey = "utils.update" THEN <<"setA">> ELSE << >>

\* what the inner CallExpression visitor pushes to setterCallsInCallback for one call
settersPushedFor(callee) ==
  IF callee.type = "Identifier"
  THEN (IF callee.name \in setterNames THEN <<callee.name>> ELSE << >>)
         \o functionsCallingSettersGet(callee.name)
  ELSE objectMethodsCallingSettersGet(callee.name)

\* what it pushes to functionCallsInCallback for one call
functionsPushedFor(callee) ==
  IF callee.type = "Identifier"
  THEN IF functionsCallingSettersGet(callee.name) # << >> THEN <<callee.name>> ELSE << >>
  ELSE IF objectMethodsCallingSettersGet(callee.name) # << >> THEN <<callee.name>> ELSE << >>

RECURSIVE setterCallsInCallback(_)
setterCallsInCallback(body) ==
  IF body = << >> THEN << >>
  ELSE settersPushedFor(Head(body)) \o setterCallsInCallback(Tail(body))

RECURSIVE functionCallsInCallback(_)
functionCallsInCallback(body) ==
  IF body = << >> THEN << >>
  ELSE functionsPushedFor(Head(body)) \o functionCallsInCallback(Tail(body))

\* confidence: isIndirect ? 'medium' : 'high', isIndirect = functionCallsInCallback.length > 0
confidenceOfMissingDeps(body) ==
  IF Len(functionCallsInCallback(body)) > 0 THEN "medium" ELSE "high"

\* no analysis pushed (type "none"), or the visitor has not run yet (type "pending")
NoAnalysis(type) ==
  [type |-> type, confidence |-> "", setterFunction |-> "",
   actualStateModifications |-> << >>]

\* the CallExpression visitor of the second pass, for one call
detectUseEffectWithoutDeps(call) ==
  IF call.hookName \notin {"useEffect", "useLayoutEffect"} THEN NoAnalysis("none")
  ELSE IF call.arguments # 1 THEN NoAnalysis("none")
  ELSE IF ~call.callbackIsFunction THEN NoAnalysis("none")
  ELSE IF call.ignored THEN NoAnalysis("none")
  ELSE IF Len(setterCallsInCallback(call.body)) = 0 THEN NoAnalysis("none")
  ELSE [type |-> "confirmed-infinite-loop",
        confidence |-> confidenceOfMissingDeps(call.body),
        setterFunction |-> Head(setterCallsInCallback(call.body)),
        actualStateModifications |-> setterCallsInCallback(call.body)]

Bodies == UNION {[1..n -> BodyCallees] : n \in 0..MaxBodyCalls}

NoDepsInit ==
  /\ \E hookName \in {"useEffect", "useLayoutEffect", "useMemo"}, arguments \in {1, 2},
        callbackIsFunction \in BOOLEAN, ignored \in BOOLEAN, body \in Bodies :
       effectCall = [hookName |-> hookName, arguments |-> arguments,
                     callbackIsFunction |-> callbackIsFunction, ignored |-> ignored,
                     body |-> body]
  /\ finding = NoAnalysis("pending")
  /\ EarlierIdle /\ MidIdle /\ ParseIdle /\ DocIdle /\ MapIdle

VisitHookCall ==
  /\ finding.type = "pending"
  /\ finding' = detectUseEffectWithoutDeps(effectCall)
  /\ UNCHANGED <<effectCall, exceptNoDeps>>

NoDepsNext == VisitHookCall

SpecNoDeps == NoDepsInit /\ [][NoDepsNext]_vars

\* the callback calls a setter by its own name
CallsSetterDirectly ==
  \E i \in 1..Len(effectCall.body) :
    /\ effectCall.body[i].type = "Identifier"
    /\ effectCall.body[i].name \in setterNames

\* C23: the finding for an effect hook without a dependency array has confidence high
\* when the callback calls a setter directly, and confidence medium when its setters
\* are reached only through a local function or an object method.
C23_DirectHighIndirectMedium ==
  (finding.type = "confirmed-infinite-loop") =>
    finding.confidence = (IF CallsSetterDirectly THEN "high" ELSE "medium")

(***************************************************************************)
(* Language server: the single-file analysis of an open document           *)
(* (unnamed/part_000: onDidChangeContent, onDidOpen, onDidClose,           *)
(* scheduleSingleFileAnalysis, runSingleFileAnalysis), with enable true.   *)
(*                                                                         *)
(* documents[uri] holds                                                    *)
(*   open         the editor has the document open                         *)
(*   timer        singleFileDebounceTimers has an armed timer for uri      *)
(*   running      the runs of runSingleFileAnalysis suspended at           *)
(*                `await analyzeHooks(...)` that started after the last    *)
(*                close of the document                                    *)
(*   stale        the suspended runs that started before the last close    *)
(*   diagnostics  what the client shows for uri: "none" before anything    *)
(*                was sent, "cleared" after an empty list, "published"     *)
(*                after a list of findings                                 *)
(***************************************************************************)
\* how many documents the editor works with
MaxDocuments == 2
\* how many didOpen / didChange / didClose notifications the editor sends
MaxDocEvents == 4

Uris == 1..MaxDocuments

DocInit ==
  /\ documents = [uri \in Uris |->
       [open |-> FALSE, timer |-> FALSE, running |-> 0, stale |-> 0,
        diagnostics |-> "none"]]
  /\ docEvents = 0
  /\ EarlierIdle /\ MidIdle /\ ParseIdle /\ NoDepsIdle /\ MapIdle

\* documents.onDidOpen: sendDiagnosticsForFile(uri) when there are cached results
DidOpen ==
  \E uri \in Uris, cached \in {"null", "findings", "clean"} :
    /\ docEvents < MaxDocEvents
    /\ ~documents[uri].open
    /\ documents' = [documents EXCEPT
         ![uri].open = TRUE,
         ![uri].diagnostics = CASE cached = "findings" -> "published"
                                [] cached = "clean" -> "cleared"
                                [] OTHER -> @]
    /\ docEvents' = docEvents + 1
    /\ UNCHANGED exceptDoc

\* scheduleSingleFileAnalysis(uri, content): clearTimeout of the document's timer,
\* then a new timer of 100 ms
scheduleSingleFileAnalysis(doc) == [doc EXCEPT !.timer = TRUE]

\* documents.onDidChangeContent of a React file whose content changed
DidChangeContent ==
  \E uri \in Uris :
    /\ docEvents < MaxDocEvents
    /\ documents[uri].open
    /\ documents' = [documents EXCEPT ![uri] = scheduleSingleFileAnalysis(@)]
    /\ docEvents' = docEvents + 1
    /\ UNCHANGED exceptDoc

\* documents.onDidClose: sendDiagnostics({ uri, diagnostics: [] }), then the
\* document's timer is cleared and deleted; the runs in flight are left alone
onDidClose(doc) ==
  [doc EXCEPT !.open = FALSE, !.diagnostics = "cleared", !.timer = FALSE,
              !.stale = @ + doc.running, !.running = 0]

DidClose ==
  \E uri \in Uris :
    /\ docEvents < MaxDocEvents
    /\ documents[uri].open
    /\ documents' = [documents EXCEPT ![uri] = onDidClose(@)]
    /\ docEvents' = docEvents + 1
    /\ UNCHANGED exceptDoc

\* the document's timer fires: runSingleFileAnalysis(uri, content) up to its
\* `await analyzeHooks(...)`, or to its return when parseFile throws (an empty list
\* is sent), then singleFileDebounceTimers.delete(uri)
SingleFileTimerFires ==
  \E uri \in Uris, parsed \in BOOLEAN :
    /\ documents[uri].timer
    /\ documents' = [documents EXCEPT
         ![uri].timer = FALSE,
         ![uri].running = IF parsed THEN @ + 1 ELSE @,
         ![uri].diagnostics = IF parsed THEN @ ELSE "cleared"]
    /\ UNCHANGED <<docEvents, exceptDoc>>

\* runSingleFileAnalysis after `await analyzeHooks(...)`: connection.sendDiagnostics
\* ({ uri, diagnostics }) with the findings of the file, or the catch block when the
\* analysis threw; neither looks at whether the document is still open
publishSingleFile(doc, outcome) ==
  [doc EXCEPT !.diagnostics = CASE outcome = "findings" -> "published"
                                [] outcome = "clean" -> "cleared"
                                [] OTHER -> @]

SingleFileRunSettles ==
  \E uri \in Uris, outcome \in {"findings", "clean", "threw"} :
    /\ documents[uri].running > 0
    /\ documents' = [documents EXCEPT
         ![uri] = publishSingleFile([@ EXCEPT !.running = @ - 1], outcome)]
    /\ UNCHANGED <<docEvents, exceptDoc>>

\* a run that started before the document was closed settles
StaleSingleFileRunSettles ==
  \E uri \in Uris, outcome \in {"findings", "clean", "threw"} :
    /\ documents[uri].stale > 0
    /\ documents' = [documents EXCEPT
         ![uri] = publishSingleFile([@ EXCEPT !.stale = @ - 1], outcome)]
    /\ UNCHANGED <<docEvents, exceptDoc>>

DocNext ==
  \/ DidOpen
  \/ DidChangeContent
  \/ DidClose
  \/ SingleFileTimerFires
  \/ SingleFileRunSettles
  \/ StaleSingleFileRunSettles

SpecDoc == DocInit /\ [][DocNext]_vars

\* C28: a closed document shows no findings of a single-file analysis: once its
\* diagnostics were cleared at the close, neither an analysis that was scheduled nor
\* one that was running at that time publishes for it.
C28_ClosedDocumentStaysCleared ==
  \A uri \in Uris : ~documents[uri].open => documents[uri].diagnostics # "published"

(***************************************************************************)
(* analyzeKeyProps (src/key-analyzer.ts) and the ESLint rule               *)
(* (eslint-plugin/src/index.ts): the stack of map-callback contexts kept   *)
(* by the enter and exit visitors of CallExpression. The traversal enters  *)
(* and leaves the call expressions of the file in nesting order.           *)
(***************************************************************************)
\* how many call expressions the file has
MaxCallNodes == 4

\* the property a member call names, and the number of its arguments
CalledProperties == {"map", "filter"}
CallArguments == {0, 1}

\* the test both visitors share: callee is a member expression whose property is map
isMapCall(node) == node.property = "map"

\* CallExpression enter: a context is pushed for a .map call with an argument
enterCallExpression(stack, node) ==
  IF isMapCall(node) /\ node.arguments > 0
  THEN Append(stack, [node |-> node.id, indexParamName |-> node.indexParamName])
  ELSE stack

\* Array.prototype.pop: the last element goes, an empty array stays empty
pop(stack) == IF stack = << >> THEN stack ELSE SubSeq(stack, 1, Len(stack) - 1)

\* CallExpression exit: a context is popped for every .map call
exitCallExpression(stack, node) ==
  IF isMapCall(node) THEN pop(stack) ELSE stack

MapInit ==
  /\ mapCallbackContexts = << >>
  /\ callPath = << >>
  /\ callNodes = 0
  /\ EarlierIdle /\ MidIdle /\ ParseIdle /\ NoDepsIdle /\ DocIdle

\* the traversal enters the next call expression, nested in those it has not left
EnterCallExpression ==
  \E property \in CalledProperties, arguments \in CallArguments,
     indexParamName \in {"null", "index"} :
    LET node == [id |-> callNodes + 1, property |-> property, arguments |-> arguments,
                 indexParamName |-> IF arguments > 0 /\ property = "map"
                                    THEN indexParamName ELSE "null"]
    IN /\ callNodes < MaxCallNodes
       /\ callNodes' = callNodes + 1
       /\ callPath' = Append(callPath, node)
       /\ mapCallbackContexts' = enterCallExpression(mapCallbackContexts, node)
       /\ UNCHANGED exceptMap

\* the traversal leaves the innermost call expression it is in
ExitCallExpression ==
  /\ callPath # << >>
  /\ mapCallbackContexts' = exitCallExpression(mapCallbackContexts, callPath[Len(callPath)])
  /\ callPath' = SubSeq(callPath, 1, Len(callPath) - 1)
  /\ UNCHANGED <<callNodes, exceptMap>>

MapNext == EnterCallExpression \/ ExitCallExpression

SpecMap == MapInit /\ [][MapNext]_vars

\* the enclosing calls that pushed a context when they were entered, outermost first
RECURSIVE PushedBy(_)
PushedBy(path) ==
  IF path = << >> THEN << >>
  ELSE LET rest == PushedBy(SubSeq(path, 1, Len(path) - 1))
           node == path[Len(path)]
       IN IF isMapCall(node) /\ node.arguments > 0 THEN Append(rest, node.id) ELSE rest

\* C29: the stack of map-callback contexts holds exactly the entries pushed by the
\* .map calls the traversal is currently inside, one each and in nesting order: every
\* pop on leaving a .map call removes the entry that call pushed, also when the call
\* left has no arguments.
C29_StackMatchesEnclosingMapCalls ==
  [i \in 1..Len(mapCallbackContexts) |-> mapCallbackContexts[i].node] = PushedBy(callPath)

(***************************************************************************)
(* Claims about the serialization of full-analysis runs.                   *)
(***************************************************************************)
\* C1: at most one full-analysis run is in flight at any time, in the language
\* server and in the watch command: no run starts while another has started
\* and not yet finished.
C1_OneRunInFlight ==
  /\ server.inFlight <= 1
  /\ watch.inFlight <= 1
  /\ server.started <= server.completed + 1
  /\ watch.started <= watch.completed + 1

\* a request has arrived while a run was in flight, in both programs
C1_Witness ==
  /\ server.inFlight = 1 /\ server.arrived >= 1
  /\ watch.inFlight = 1 /\ watch.arrived >= 1

\* C2: requests that arrive while a run is in flight are coalesced: a run is
\* queued only behind an in-flight run during which a request arrived, and
\* the completions that trigger a follow-up run never outnumber the runs
\* during which a request arrived.
C2_Coalesced ==
  /\ server.pendingAnalysis => (server.isAnalyzing /\ server.arrived >= 1)
  /\ watch.pendingAnalysis => (watch.isAnalyzing /\ watch.arrived >= 1)
  /\ server.reruns <= server.busyRuns
  /\ watch.reruns <= watch.busyRuns

\* several requests arrived during one run after an earlier run had already
\* triggered its follow-up
C2_Witness ==
  /\ server.arrived >= 2 /\ server.pendingAnalysis /\ server.reruns >= 1
  /\ watch.arrived >= 2 /\ watch.pendingAnalysis

C4_QueuedRunStartsOnCompletion ==
  [][ /\ (server.pendingAnalysis /\ server.completed' = server.completed + 1)
           => server.started' = server.started + 1
      /\ (watch.pendingAnalysis /\ watch.completed' = watch.completed + 1)
           => watch.started' = watch.started + 1
    ]_vars

\* C26: whenever the server has answered a reactLoopDetector/analyzeWorkspace request
\* with success, a full analysis that started after the request was received has
\* completed; this includes a request that arrives while a full analysis is in flight.
C26_AnswerFollowsOwnRun == ~server.answeredEarly

\* C27: while enable is false after a configuration change, no result of a full
\* analysis is published, also when a debounce timer was pending or a run was in
\* flight or queued at the time of the change.
C27_NothingPublishedWhileDisabled == ~server.publishedDisabled

====
